---- MODULE Spec2Model ----
(***************************************************************************)
(* A model of the GLB container parser and scene builder of ARSCANNER.     *)
(* The core exists twice in the repository: once in ARViewScreen.js (the   *)
(* AR screen, site "AR") and once in ModelViewerScreen.js (the model       *)
(* viewer, site "MV").  The two copies of parseGLB, buildSceneFromGLTF,    *)
(* processNode and buildPrimitive are the same text; the two copies of     *)
(* readAccessor differ and are modelled separately.                        *)
(*                                                                         *)
(* JavaScript values are records with a "tag" field (null, a Uint8Array    *)
(* view, a parsed JSON value, a thrown error).  An optional property of a  *)
(* JSON object is a field that is in or out of the record's DOMAIN.        *)
(* A byte is a number 0..255; an ArrayBuffer is a sequence of bytes whose  *)
(* byte at offset o is element o + 1.                                      *)
(***************************************************************************)
EXTENDS Integers, Sequences, FiniteSets, TLC

VARIABLES
  site,           \* which copy of the core runs: "AR" or "MV"
  pc,             \* position of the running call
  arrayBuffer,    \* the bytes of the underlying ArrayBuffer
  gltfJson,       \* the parsed document handed to readAccessor / the builder
  binaryData,     \* the Uint8Array view of the binary chunk, or null
  accessorIndex,  \* readAccessor's third argument
  result,         \* what the call returned or threw
  warnings,       \* the console.warn log of the call
  totalLength,    \* parseGLB: the header's declared total length
  offset,         \* parseGLB: the chunk loop's offset
  jsonChunk,      \* parseGLB: the parsed document chunk, or null
  binaryChunk,    \* parseGLB: the view of the binary chunk, or null
  chunksRead,     \* parseGLB: the chunk headers read so far, in order
  stack,          \* the builder's call stack: one frame per processNode call
  groups,         \* the THREE.Group objects made by processNode, by creation
  drawables,      \* the THREE.Mesh objects attached to a group, by creation
  layouts,        \* one vertex set laid out tightly and interleaved
  resolved,       \* what readAccessor returned for each layout
  model,          \* the root THREE.Group handed to normalizeModel, or null
  target,         \* normalizeModel's targetSize argument
  before,         \* the Group as it was when normalizeModel was last called
  applied,        \* the scale factor and offset normalizeModel last applied
  returned,       \* what normalizeModel last returned
  calls,          \* the calls of normalizeModel made on the Group
  modelDimensions,\* the screen's modelDimensions state, or null
  status,         \* the screen's arState (AR) or status (viewer) state
  statusMessage,  \* the AR screen's statusMessage state
  surfaceDetected,\* the AR screen's surfaceDetectedRef
  modelLoaded,    \* modelLoadedRef / modelRef: the Group is kept for rendering
  running,        \* the call whose activation the variables above hold, or 0
  suspended,      \* the activations of the calls that are not running
  keys,           \* backend: which of MESHY_API_KEY and TRIPO_API_KEY are set
  stored,         \* backend: the object's document in the database, or null
  route,          \* backend: the activation of router.post('/')
  poller,         \* backend: the activation of pollUntilComplete
  requests,       \* backend: the activations of router.get('/:id/status')
  task,           \* the providers' generation tasks
  regen,          \* backend: the regenerate route's handling of one request
  wait,           \* frontend: the activation of waitForGeneration
  server,         \* frontend: what the status endpoint answers now
  ar,             \* AR screen: the component's refs and React state
  sceneRef,       \* AR screen: the children of the THREE.Scene
  load            \* either screen: one mount of the screen and its model load

sharedVars == <<site, pc, arrayBuffer, gltfJson, binaryData, result, warnings>>
accessorVars == <<accessorIndex>>
glbVars == <<totalLength, offset, jsonChunk, binaryChunk, chunksRead>>

sceneVars == <<stack, groups, drawables>>

layoutVars == <<layouts, resolved>>

screenVars ==
  <<model, target, before, applied, returned, calls, modelDimensions, status,
    statusMessage, surfaceDetected, modelLoaded>>

callVars == <<running, suspended>>

backendVars == <<keys, stored, route, poller, requests, task, regen>>

\* The state around one call of the core.
clientVars == <<wait, server>>

sessionVars == <<ar, sceneRef, load>>

appVars == <<callVars, backendVars, clientVars, sessionVars>>

coreVars == <<sharedVars, accessorVars, glbVars, sceneVars, layoutVars, screenVars>>

\* What the backend leaves alone.
notBackendVars == <<coreVars, callVars, clientVars, sessionVars>>

\* What the frontend's api service leaves alone.
notClientVars == <<coreVars, callVars, backendVars, sessionVars>>

\* What the AR screen's handlers leave alone.
notSessionVars == <<coreVars, callVars, backendVars, clientVars>>

vars == <<sharedVars, accessorVars, glbVars, sceneVars, layoutVars, screenVars, appVars>>

----------------------------------------------------------------------------
(* Bounds of the model.                                                    *)

\* Largest accessor element count drawn as an input.
MaxCount == 3

\* Largest number of chunks in a container drawn as an input.
MaxChunks == 3

\* Largest number of nodes in a document drawn as an input.
MaxNodes == 2

\* Most turns of pollUntilComplete's loop before its five minutes are over.
MaxPolls == 2

\* Most polls of waitForGeneration before maxDuration has elapsed.
MaxWaitPolls == 3

\* Most taps, presses of reset and touch events of one AR session.
MaxEvents == 5

\* Most frames the render loop draws, and most retries of a failed load.
MaxFrames == 2
MaxRetries == 1

\* Most requests for the status of one object.
MaxRequests == 2

\* Most calls of normalizeModel made on one Group.
MaxCalls == 2

\* The JavaScript engine's call stack, in processNode frames: the call that
\* would exceed it throws RangeError (Maximum call stack size exceeded).
\* The engine's real limit is some thousands of frames.
MaxStack == 4

----------------------------------------------------------------------------
(* Program constants.                                                      *)

GLB_MAGIC == 1179937895
CHUNK_TYPE_JSON == 1313821514
CHUNK_TYPE_BIN == 5130562

COMPONENT_TYPES ==
  (5120 :> [array |-> "Int8Array", size |-> 1]) @@
  (5121 :> [array |-> "Uint8Array", size |-> 1]) @@
  (5122 :> [array |-> "Int16Array", size |-> 2]) @@
  (5123 :> [array |-> "Uint16Array", size |-> 2]) @@
  (5125 :> [array |-> "Uint32Array", size |-> 4]) @@
  (5126 :> [array |-> "Float32Array", size |-> 4])

TYPE_SIZES ==
  [SCALAR |-> 1, VEC2 |-> 2, VEC3 |-> 3, VEC4 |-> 4, MAT2 |-> 4, MAT3 |-> 9, MAT4 |-> 16]

----------------------------------------------------------------------------
(* JavaScript values.                                                      *)

Null == [tag |-> "null"]

\* new Uint8Array(buffer, byteOffset, byteLength): a view, not a copy.
Uint8View(byteOffset, byteLength) ==
  [tag |-> "Uint8Array", byteOffset |-> byteOffset, byteLength |-> byteLength]

\* obj.f || d and obj.f !== undefined ? obj.f : d, for a numeric property.
Field(obj, f, d) == IF f \in DOMAIN obj THEN obj[f] ELSE d

Min(a, b) == IF a < b THEN a ELSE b

\* The unsigned little-endian number held by `width` bytes at offset `at`.
RECURSIVE UintLE(_, _, _)
UintLE(bytes, at, width) ==
  IF width = 0 THEN 0 ELSE bytes[at + 1] + 256 * UintLE(bytes, at + 1, width - 1)

\* Two's complement reading of an unsigned number of `width` bytes.
Signed(u, width) ==
  LET half == IF width = 1 THEN 128 ELSE 32768
  IN IF u >= half THEN u - 2 * half ELSE u

(* Element `at` (a byte offset) of a typed array laid over `bytes`.  A typed *)
(* array reads in the platform's byte order, little-endian on every target *)
(* of the app.  A Float32Array element is represented by its IEEE-754 bit  *)
(* pattern, so Float32Array and Uint32Array decode the same number and     *)
(* differ in the array's constructor.                                      *)
TypedArrayElement(ctor, bytes, at) ==
  CASE ctor = "Int8Array" -> Signed(UintLE(bytes, at, 1), 1)
    [] ctor = "Uint8Array" -> UintLE(bytes, at, 1)
    [] ctor = "Int16Array" -> Signed(UintLE(bytes, at, 2), 2)
    [] ctor = "Uint16Array" -> UintLE(bytes, at, 2)
    [] ctor = "Uint32Array" -> UintLE(bytes, at, 4)
    [] ctor = "Float32Array" -> UintLE(bytes, at, 4)

\* The switch over accessor.componentType: dataView.getXxx(compOffset, true).
DataViewGet(componentType, bytes, at) ==
  CASE componentType = 5126 -> UintLE(bytes, at, 4)
    [] componentType = 5123 -> UintLE(bytes, at, 2)
    [] componentType = 5125 -> UintLE(bytes, at, 4)
    [] componentType = 5121 -> UintLE(bytes, at, 1)
    [] componentType = 5122 -> Signed(UintLE(bytes, at, 2), 2)
    [] componentType = 5120 -> Signed(UintLE(bytes, at, 1), 1)

\* What a call produced: a typed array, or a thrown error.
Returned(ctor, elems, shares, warns) ==
  [status |-> "ok", error |-> "", ctor |-> ctor, elems |-> elems,
   shares |-> shares, warnings |-> warns]

Thrown(error, warns) ==
  [status |-> "throw", error |-> error, ctor |-> "", elems |-> <<>>,
   shares |-> FALSE, warnings |-> warns]

NoResult ==
  [status |-> "none", error |-> "", ctor |-> "", elems |-> <<>>,
   shares |-> FALSE, warnings |-> <<>>]

----------------------------------------------------------------------------
(* readAccessor.                                                           *)

AbsoluteByteOffsetOfViewOnly(bufferView, accessor) ==
  Field(bufferView, "byteOffset", 0)

\* (bufferView.byteOffset || 0) + (accessor.byteOffset || 0)
AbsoluteByteOffset(bufferView, accessor) ==
  Field(bufferView, "byteOffset", 0) + Field(accessor, "byteOffset", 0)

\* bufferView.byteStride || 0
ByteStride(bufferView) == Field(bufferView, "byteStride", 0)

\* Offset of component j of element i on the element-by-element path.
CompOffset(byteOffset, byteStride, size, i, j) ==
  byteOffset + i * byteStride + j * size

(* The tight path of the AR screen: copy the clamped byte range with       *)
(* binaryData.slice, then lay the typed array over the copy.  The typed    *)
(* array constructor throws a RangeError when the copy is shorter than     *)
(* totalElements elements.                                                 *)
TightCopyAR(buffer, bin, ctor, size, byteOffset, totalElements, warns) ==
  LET totalBytes == totalElements * size
      srcStart == Min(byteOffset, bin.byteLength)
      srcEnd == Min(byteOffset + totalBytes, bin.byteLength)
      slice == [k \in 1..(IF srcEnd > srcStart THEN srcEnd - srcStart ELSE 0) |->
                  buffer[bin.byteOffset + srcStart + k]]
  IN IF totalElements * size > Len(slice)
       THEN Thrown("RangeError", warns)
       ELSE Returned(ctor,
                     [k \in 1..totalElements |-> TypedArrayElement(ctor, slice, (k - 1) * size)],
                     FALSE, warns)

(* The element-by-element path of the AR screen.  A component that would   *)
(* end past the payload logs a warning and breaks out of the element's     *)
(* component loop; the components not written keep the array's initial 0.  *)
InterleavedAR(buffer, bin, accessor, ctor, size, numComponents, byteOffset, byteStride, warns) ==
  LET count == accessor.count
      inside(i, j) ==
        CompOffset(byteOffset, byteStride, size, i, j) + size <= bin.byteLength
      elem(i, j) ==
        IF inside(i, j)
          THEN DataViewGet(accessor.componentType, buffer,
                           bin.byteOffset + CompOffset(byteOffset, byteStride, size, i, j))
          ELSE 0
      broken == {i \in 0..(count - 1) : \E j \in 0..(numComponents - 1) : ~inside(i, j)}
      RECURSIVE warnsOf(_)
      warnsOf(i) ==
        IF i >= count THEN <<>>
        ELSE (IF i \in broken THEN <<"interleaved read out of bounds">> ELSE <<>>)
             \o warnsOf(i + 1)
  IN Returned(ctor,
              [k \in 1..(count * numComponents) |->
                 elem((k - 1) \div numComponents, (k - 1) % numComponents)],
              FALSE, warns \o warnsOf(0))

readAccessorAR(gltf, buffer, bin, index) ==
  IF ("accessors" \notin DOMAIN gltf) \/ (index + 1 \notin DOMAIN gltf.accessors)
    THEN Thrown("TypeError", <<>>)
  ELSE LET accessor == gltf.accessors[index + 1] IN
  IF "bufferViews" \notin DOMAIN gltf
    THEN Thrown("TypeError", <<>>)
  ELSE IF accessor.componentType \notin DOMAIN COMPONENT_TYPES
    THEN Thrown("Unsupported component type", <<>>)
  ELSE IF accessor.type \notin DOMAIN TYPE_SIZES
    THEN Thrown("Unsupported accessor type", <<>>)
  ELSE IF ("bufferView" \notin DOMAIN accessor)
          \/ (accessor.bufferView + 1 \notin DOMAIN gltf.bufferViews)
    THEN Thrown("TypeError", <<>>)
  ELSE
    LET bufferView == gltf.bufferViews[accessor.bufferView + 1]
        componentInfo == COMPONENT_TYPES[accessor.componentType]
        numComponents == TYPE_SIZES[accessor.type]
        byteOffset == AbsoluteByteOffset(bufferView, accessor)
        count == accessor.count
        byteStride == ByteStride(bufferView)
        tightStride == componentInfo.size * numComponents
        totalElements == count * numComponents
        totalBytes == totalElements * componentInfo.size
        warns == IF byteOffset + totalBytes > bin.byteLength
                   THEN <<"overflows binary chunk">> ELSE <<>>
    IN IF byteStride = 0 \/ byteStride = tightStride
         THEN TightCopyAR(buffer, bin, componentInfo.array, componentInfo.size,
                          byteOffset, totalElements, warns)
         ELSE InterleavedAR(buffer, bin, accessor, componentInfo.array, componentInfo.size,
                            numComponents, byteOffset, byteStride, warns)

(* The fast path of the model viewer: a typed array laid directly over     *)
(* binaryData.buffer at binaryData.byteOffset + byteOffset.  The typed     *)
(* array constructor throws a RangeError when that offset is not a         *)
(* multiple of the element size or when the array would end past the       *)
(* ArrayBuffer (not past the payload).                                     *)
TightViewMV(buffer, bin, ctor, size, byteOffset, totalElements) ==
  LET start == bin.byteOffset + byteOffset
  IN IF (start % size # 0) \/ (start + totalElements * size > Len(buffer))
       THEN Thrown("RangeError", <<>>)
       ELSE Returned(ctor,
                     [k \in 1..totalElements |->
                        TypedArrayElement(ctor, buffer, start + (k - 1) * size)],
                     TRUE, <<>>)

(* The slow path of the model viewer: a DataView from binaryData.byteOffset *)
(* to the end of the ArrayBuffer, read with no bounds check; a getXxx past  *)
(* the DataView throws a RangeError.                                        *)
InterleavedMV(buffer, bin, accessor, ctor, size, numComponents, byteOffset, byteStride) ==
  LET count == accessor.count
      viewLength == Len(buffer) - bin.byteOffset
      inside(i, j) ==
        CompOffset(byteOffset, byteStride, size, i, j) + size <= viewLength
  IN IF \E i \in 0..(count - 1), j \in 0..(numComponents - 1) : ~inside(i, j)
       THEN Thrown("RangeError", <<>>)
       ELSE Returned(ctor,
                     [k \in 1..(count * numComponents) |->
                        DataViewGet(accessor.componentType, buffer,
                                    bin.byteOffset
                                    + CompOffset(byteOffset, byteStride, size,
                                                 (k - 1) \div numComponents,
                                                 (k - 1) % numComponents))],
                     FALSE, <<>>)

readAccessorMV(gltf, buffer, bin, index) ==
  IF ("accessors" \notin DOMAIN gltf) \/ (index + 1 \notin DOMAIN gltf.accessors)
    THEN Thrown("TypeError", <<>>)
  ELSE LET accessor == gltf.accessors[index + 1] IN
  IF "bufferViews" \notin DOMAIN gltf
    THEN Thrown("TypeError", <<>>)
  ELSE IF accessor.componentType \notin DOMAIN COMPONENT_TYPES
    THEN Thrown("Unsupported component type", <<>>)
  ELSE IF accessor.type \notin DOMAIN TYPE_SIZES
    THEN Thrown("Unsupported accessor type", <<>>)
  ELSE IF ("bufferView" \notin DOMAIN accessor)
          \/ (accessor.bufferView + 1 \notin DOMAIN gltf.bufferViews)
    THEN Thrown("TypeError", <<>>)
  ELSE
    LET bufferView == gltf.bufferViews[accessor.bufferView + 1]
        componentInfo == COMPONENT_TYPES[accessor.componentType]
        numComponents == TYPE_SIZES[accessor.type]
        byteOffset == AbsoluteByteOffset(bufferView, accessor)
        count == accessor.count
        byteStride == ByteStride(bufferView)
        tightStride == componentInfo.size * numComponents
    IN IF byteStride = 0 \/ byteStride = tightStride
         THEN TightViewMV(buffer, bin, componentInfo.array, componentInfo.size,
                          byteOffset, count * numComponents)
         ELSE InterleavedMV(buffer, bin, accessor, componentInfo.array, componentInfo.size,
                            numComponents, byteOffset, byteStride)

readAccessor(s, gltf, buffer, bin, index) ==
  IF s = "AR" THEN readAccessorAR(gltf, buffer, bin, index)
              ELSE readAccessorMV(gltf, buffer, bin, index)

----------------------------------------------------------------------------
(* parseGLB.  The two copies (ARViewScreen.js 145-189, ModelViewerScreen.js *)
(* 140-187) are the same text.                                             *)

\* The value of a call that has not returned yet.
Pending == [status |-> "none", error |-> ""]

\* JSON.parse over the characters { } 0 1 2: an empty object, a number, or
\* a SyntaxError.  String.fromCharCode maps each byte to its character.
IsDigit(b) == b \in 48..50

RECURSIVE DecimalValue(_)
DecimalValue(bytes) ==
  IF bytes = <<>> THEN 0
  ELSE 10 * DecimalValue(SubSeq(bytes, 1, Len(bytes) - 1)) + (bytes[Len(bytes)] - 48)

JSONParse(bytes) ==
  IF bytes = <<123, 125>> THEN [tag |-> "object"]
  ELSE IF /\ bytes # <<>>
          /\ \A k \in DOMAIN bytes : IsDigit(bytes[k])
          /\ (Len(bytes) > 1 => bytes[1] # 48)
    THEN [tag |-> "number", value |-> DecimalValue(bytes)]
  ELSE [tag |-> "SyntaxError"]

NeverFalsy(value) == FALSE

\* !value
Falsy(value) ==
  \/ value.tag = "null"
  \/ value.tag = "number" /\ value.value = 0

\* dataView.getUint32(at, true) is inside the ArrayBuffer.
CanRead32(buffer, at) == at + 4 <= Len(buffer)

\* new Uint8Array(arrayBuffer, start, length) is inside the ArrayBuffer.
CanView(buffer, start, length) == start + length <= Len(buffer)

Throw(error) ==
  /\ result' = [status |-> "throw", error |-> error]
  /\ pc' = "done"

\* magic !== GLB_MAGIC is false.
MagicMatches(buffer) == UintLE(buffer, 0, 4) = GLB_MAGIC

VersionMatchesAtLeast(buffer) == UintLE(buffer, 4, 4) >= 2

\* version !== 2 is false.
VersionMatches(buffer) == UintLE(buffer, 4, 4) = 2

(* Lines 145-164: the header.  A DataView read past the ArrayBuffer throws *)
(* a RangeError.                                                           *)
ParseHeader ==
  /\ pc = "parseGLB"
  /\ IF ~CanRead32(arrayBuffer, 0)
       THEN Throw("RangeError") /\ UNCHANGED glbVars
     ELSE IF ~MagicMatches(arrayBuffer)
       THEN Throw("Invalid GLB file: bad magic number") /\ UNCHANGED glbVars
     ELSE IF ~CanRead32(arrayBuffer, 4)
       THEN Throw("RangeError") /\ UNCHANGED glbVars
     ELSE IF ~VersionMatches(arrayBuffer)
       THEN Throw("Unsupported GLB version") /\ UNCHANGED glbVars
     ELSE IF ~CanRead32(arrayBuffer, 8)
       THEN Throw("RangeError") /\ UNCHANGED glbVars
     ELSE /\ totalLength' = UintLE(arrayBuffer, 8, 4)
          /\ jsonChunk' = Null
          /\ binaryChunk' = Null
          /\ offset' = 12
          /\ pc' = "chunks"
          /\ UNCHANGED <<result, chunksRead>>
  /\ UNCHANGED <<site, arrayBuffer, gltfJson, binaryData, warnings, accessorVars, appVars, sceneVars, layoutVars, screenVars>>

\* The assignment a chunk of the document type makes to jsonChunk.
StoreJson(old, parsed) == parsed

\* The assignment a chunk of the binary type makes to binaryChunk.
StoreBinary(old, view) == view

AdvanceOffsetByLength(at, chunkLength) == at + chunkLength

\* offset += 8 + chunkLength
AdvanceOffset(at, chunkLength) == at + 8 + chunkLength

(* Lines 166-182: one iteration of the chunk loop.                         *)
ReadChunk ==
  /\ pc = "chunks"
  /\ offset < totalLength
  /\ IF ~CanRead32(arrayBuffer, offset) \/ ~CanRead32(arrayBuffer, offset + 4)
       THEN Throw("RangeError") /\ UNCHANGED glbVars
     ELSE
       LET chunkLength == UintLE(arrayBuffer, offset, 4)
           chunkType == UintLE(arrayBuffer, offset + 4, 4)
           header == [at |-> offset, type |-> chunkType, length |-> chunkLength]
           jsonBytes == SubSeq(arrayBuffer, offset + 9, offset + 8 + chunkLength)
       IN IF chunkType \in {CHUNK_TYPE_JSON, CHUNK_TYPE_BIN}
             /\ ~CanView(arrayBuffer, offset + 8, chunkLength)
            THEN /\ Throw("RangeError")
                 /\ chunksRead' = Append(chunksRead, header)
                 /\ UNCHANGED <<totalLength, offset, jsonChunk, binaryChunk>>
          ELSE IF chunkType = CHUNK_TYPE_JSON /\ JSONParse(jsonBytes).tag = "SyntaxError"
            THEN /\ Throw("SyntaxError")
                 /\ chunksRead' = Append(chunksRead, header)
                 /\ UNCHANGED <<totalLength, offset, jsonChunk, binaryChunk>>
          ELSE /\ jsonChunk' = IF chunkType = CHUNK_TYPE_JSON
                                 THEN StoreJson(jsonChunk, JSONParse(jsonBytes))
                                 ELSE jsonChunk
               /\ binaryChunk' = IF chunkType = CHUNK_TYPE_BIN
                                   THEN StoreBinary(binaryChunk, Uint8View(offset + 8, chunkLength))
                                   ELSE binaryChunk
               /\ offset' = AdvanceOffset(offset, chunkLength)
               /\ chunksRead' = Append(chunksRead, header)
               /\ UNCHANGED <<totalLength, pc, result>>
  /\ UNCHANGED <<site, arrayBuffer, gltfJson, binaryData, warnings, accessorVars, appVars, sceneVars, layoutVars, screenVars>>

(* Lines 184-188: the loop has ended.                                      *)
ParseReturn ==
  /\ pc = "chunks"
  /\ ~(offset < totalLength)
  /\ IF Falsy(jsonChunk)
       THEN Throw("GLB file has no JSON chunk") /\ UNCHANGED <<gltfJson, binaryData>>
       ELSE /\ result' = [status |-> "ok", error |-> ""]
            /\ gltfJson' = jsonChunk
            /\ binaryData' = binaryChunk
            /\ pc' = "done"
  /\ UNCHANGED <<site, arrayBuffer, warnings, accessorVars, appVars, glbVars, sceneVars, layoutVars, screenVars>>

----------------------------------------------------------------------------
(* buildMaterial.  Fractions are held in hundredths: 100 is 1.0, 50 is 0.5. *)
(* The record returned is the MeshStandardMaterial the constructor makes   *)
(* of materialProps: a property the code does not set has three.js's       *)
(* default (transparent false, opacity 1, alphaTest 0).                    *)

MaterialThrown == [status |-> "throw", error |-> "TypeError"]

\* The base-colour part, the same text in both copies.
BaseColorProps(mat) ==
  IF "pbrMetallicRoughness" \in DOMAIN mat
       /\ "baseColorFactor" \in DOMAIN mat.pbrMetallicRoughness
    THEN LET f == mat.pbrMetallicRoughness.baseColorFactor
         IN [color |-> <<f[1], f[2], f[3]>>,
             transparent |-> (Len(f) >= 4 /\ f[4] < 100),
             opacity |-> IF Len(f) >= 4 /\ f[4] < 100 THEN f[4] ELSE 100]
    ELSE [color |-> <<>>, transparent |-> FALSE, opacity |-> 100]

Pbr(mat, f, d) ==
  IF "pbrMetallicRoughness" \in DOMAIN mat
    THEN Field(mat.pbrMetallicRoughness, f, d) ELSE d

buildMaterialAR(gltf, primitive) ==
  IF "material" \in DOMAIN primitive /\ "materials" \in DOMAIN gltf
    THEN
      IF primitive.material + 1 \notin DOMAIN gltf.materials
        THEN MaterialThrown
        ELSE
          LET mat == gltf.materials[primitive.material + 1]
              base == BaseColorProps(mat)
              alphaMode == Field(mat, "alphaMode", "")
          IN [status |-> "ok",
              color |-> IF base.color = <<>> THEN "cccccc" ELSE "factor",
              rgb |-> base.color,
              transparent |-> base.transparent \/ alphaMode = "BLEND",
              opacity |-> base.opacity,
              metalness |-> Pbr(mat, "metallicFactor", 0),
              roughness |-> Pbr(mat, "roughnessFactor", 100),
              alphaTest |-> IF alphaMode = "BLEND" THEN Field(mat, "alphaCutoff", 0)
                            ELSE IF alphaMode = "MASK" THEN Field(mat, "alphaCutoff", 50)
                            ELSE 0,
              side |-> IF "doubleSided" \in DOMAIN mat /\ mat.doubleSided = FALSE
                         THEN "FrontSide" ELSE "DoubleSide",
              emissive |-> "111111",
              vertexColors |-> FALSE]
    ELSE [status |-> "ok", color |-> "cccccc", rgb |-> <<>>, transparent |-> FALSE,
          opacity |-> 100, metalness |-> 0, roughness |-> 100, alphaTest |-> 0,
          side |-> "DoubleSide", emissive |-> "111111", vertexColors |-> FALSE]

buildMaterialMV(gltf, primitive) ==
  LET hasVertexColors == "COLOR_0" \in DOMAIN primitive.attributes
  IN IF "material" \in DOMAIN primitive /\ "materials" \in DOMAIN gltf
       THEN
         IF primitive.material + 1 \notin DOMAIN gltf.materials
           THEN MaterialThrown
           ELSE
             LET mat == gltf.materials[primitive.material + 1]
                 base == BaseColorProps(mat)
             IN [status |-> "ok",
                 color |-> IF base.color # <<>> THEN "factor"
                           ELSE IF hasVertexColors THEN "ffffff" ELSE "8899aa",
                 rgb |-> base.color,
                 transparent |-> base.transparent,
                 opacity |-> base.opacity,
                 metalness |-> Pbr(mat, "metallicFactor", 10),
                 roughness |-> Pbr(mat, "roughnessFactor", 80),
                 alphaTest |-> 0,
                 side |-> IF "doubleSided" \in DOMAIN mat /\ mat.doubleSided = FALSE
                            THEN "FrontSide" ELSE "DoubleSide",
                 emissive |-> IF "emissiveFactor" \in DOMAIN mat THEN "factor" ELSE "000000",
                 vertexColors |-> hasVertexColors]
       ELSE [status |-> "ok", color |-> IF hasVertexColors THEN "ffffff" ELSE "8899aa",
             rgb |-> <<>>, transparent |-> FALSE, opacity |-> 100, metalness |-> 10,
             roughness |-> 80, alphaTest |-> 0, side |-> "DoubleSide",
             emissive |-> "000000", vertexColors |-> hasVertexColors]

buildMaterial(s, gltf, primitive) ==
  IF s = "AR" THEN buildMaterialAR(gltf, primitive) ELSE buildMaterialMV(gltf, primitive)

----------------------------------------------------------------------------
(* buildPrimitive.  The two copies (ARViewScreen.js 266-365,               *)
(* ModelViewerScreen.js 278-390) are the same text up to the readAccessor  *)
(* and buildMaterial each calls.                                           *)

\* A number that a typed array of floats holds after conversion from an
\* integer array: the float equal to n.
FloatOfInt(n) == [int |-> n]

\* new Float32Array(typedArray): element by element.
ToFloat32Array(array) ==
  IF array.ctor = "Float32Array" THEN array.elems
  ELSE [k \in DOMAIN array.elems |-> FloatOfInt(array.elems[k])]

\* colors[i] / 255 and colors[i] / 65535.
Ratio(n, d) == [num |-> n, den |-> d]

ColorArray(componentType, colors) ==
  IF componentType = 5121 THEN [k \in DOMAIN colors.elems |-> Ratio(colors.elems[k], 255)]
  ELSE IF componentType = 5123 THEN [k \in DOMAIN colors.elems |-> Ratio(colors.elems[k], 65535)]
  ELSE ToFloat32Array(colors)

IndexArrayOf16Bits(componentType, indices) ==
  [ctor |-> "Uint16Array",
   elems |-> [k \in DOMAIN indices.elems |-> indices.elems[k] % 65536]]

\* new Uint32Array(indices) and new Uint16Array(indices), for an integer
\* source: the value modulo 2^32 (unchanged for the integer types) and 2^16.
IndexArray(componentType, indices) ==
  IF componentType = 5125
    THEN [ctor |-> "Uint32Array", elems |-> indices.elems]
    ELSE [ctor |-> "Uint16Array",
          elems |-> [k \in DOMAIN indices.elems |-> indices.elems[k] % 65536]]

\* new THREE.BufferAttribute(array, itemSize)
BufferAttribute(elems, itemSize) == [array |-> elems, itemSize |-> itemSize]

PrimitiveThrown(error, warns) ==
  [status |-> "throw", error |-> error, geometry |-> <<>>, material |-> <<>>,
   warnings |-> warns]

PrimitiveSkippedAborts(warns) ==
  [status |-> "throw", error |-> "Primitive has no POSITION attribute", geometry |-> <<>>,
   material |-> <<>>, warnings |-> warns]

PrimitiveSkipped(warns) ==
  [status |-> "null", error |-> "", geometry |-> <<>>, material |-> <<>>,
   warnings |-> warns]

\* readAccessor for an attribute the primitive declares; no call otherwise.
ReadDeclared(s, gltf, buffer, bin, owner, name) ==
  IF name \in DOMAIN owner
    THEN readAccessor(s, gltf, buffer, bin, owner[name])
    ELSE NoResult

\* The geometry attribute an accessor read adds, if the primitive declares it.
AttributeOf(name, read, elems, itemSize) ==
  IF read.status = "ok" THEN [a \in {name} |-> BufferAttribute(elems, itemSize)] ELSE <<>>

(* What buildPrimitive makes of the accessors it has read, in the order it  *)
(* reads them: the first read that threw ends the call; otherwise the      *)
(* geometry holds an attribute for each accessor read.                     *)
AssemblePrimitive(gltf, primitive, positions, normals, uvs, colors, indices, material) ==
  IF positions.status = "throw"
    THEN PrimitiveThrown(positions.error, positions.warnings)
  ELSE IF normals.status = "throw"
    THEN PrimitiveThrown(normals.error, positions.warnings \o normals.warnings)
  ELSE IF uvs.status = "throw"
    THEN PrimitiveThrown(uvs.error,
                         positions.warnings \o normals.warnings \o uvs.warnings)
  ELSE IF colors.status = "throw"
    THEN PrimitiveThrown(colors.error,
                         positions.warnings \o normals.warnings \o uvs.warnings
                         \o colors.warnings)
  ELSE IF indices.status = "throw"
    THEN PrimitiveThrown(indices.error,
                         positions.warnings \o normals.warnings \o uvs.warnings
                         \o colors.warnings \o indices.warnings)
  ELSE IF material.status = "throw"
    THEN PrimitiveThrown(material.error,
                         positions.warnings \o normals.warnings \o uvs.warnings
                         \o colors.warnings \o indices.warnings)
  ELSE
    LET attrs == primitive.attributes
        colorAccessor == gltf.accessors[attrs.COLOR_0 + 1]
        indexAccessor == gltf.accessors[primitive.indices + 1]
        computed ==
          \* geometry.computeVertexNormals(): one normal per position.
          IF "NORMAL" \in DOMAIN attrs THEN <<>>
          ELSE [a \in {"normal"} |->
                  [computed |-> TRUE, itemSize |-> 3,
                   count |-> Len(positions.elems) \div 3]]
    IN [status |-> "ok", error |-> "",
        geometry |->
          AttributeOf("position", positions, ToFloat32Array(positions), 3)
          @@ AttributeOf("normal", normals, ToFloat32Array(normals), 3)
          @@ AttributeOf("uv", uvs, ToFloat32Array(uvs), 2)
          @@ (IF colors.status = "ok"
                THEN AttributeOf("color", colors,
                                 ColorArray(colorAccessor.componentType, colors),
                                 TYPE_SIZES[colorAccessor.type])
                ELSE <<>>)
          @@ (IF indices.status = "ok"
                THEN [a \in {"index"} |->
                        IndexArray(indexAccessor.componentType, indices)]
                ELSE <<>>)
          @@ computed,
        material |-> material,
        warnings |-> positions.warnings \o normals.warnings \o uvs.warnings
                     \o colors.warnings \o indices.warnings]

buildPrimitive(s, gltf, buffer, bin, primitive) ==
  IF bin.tag = "null"
    THEN PrimitiveThrown("GLB has no binary data chunk", <<>>)
  ELSE IF "POSITION" \notin DOMAIN primitive.attributes
    THEN PrimitiveSkipped(<<"Primitive has no POSITION attribute, skipping">>)
  ELSE AssemblePrimitive(gltf, primitive,
         readAccessor(s, gltf, buffer, bin, primitive.attributes.POSITION),
         ReadDeclared(s, gltf, buffer, bin, primitive.attributes, "NORMAL"),
         ReadDeclared(s, gltf, buffer, bin, primitive.attributes, "TEXCOORD_0"),
         ReadDeclared(s, gltf, buffer, bin, primitive.attributes, "COLOR_0"),
         ReadDeclared(s, gltf, buffer, bin, primitive, "indices"),
         buildMaterial(s, gltf, primitive))

----------------------------------------------------------------------------
(* buildSceneFromGLTF and processNode.  The two copies (ARViewScreen.js    *)
(* 191-264, ModelViewerScreen.js 194-273) are the same text.  The scene    *)
(* graph is held as two arenas: groups[g] is the Group processNode made    *)
(* for a node, with the group it was added to (0: the root Group of        *)
(* buildSceneFromGLTF) once it has been added; drawables[d] is a Mesh with *)
(* the group it was added to.  A group's children are its drawables and    *)
(* then its groups, each in creation order.                                *)

Frame(group, children) == [group |-> group, children |-> children, k |-> 1]

NodeTransformUnlessTranslated(node) ==
  IF "matrix" \in DOMAIN node /\ "translation" \notin DOMAIN node
    THEN [kind |-> "matrix", matrix |-> node.matrix]
    ELSE [kind |-> "trs",
          translation |-> Field(node, "translation", <<0, 0, 0>>),
          rotation |-> Field(node, "rotation", <<0, 0, 0, 1>>),
          scale |-> Field(node, "scale", <<1, 1, 1>>)]

\* The local transform processNode gives the node's Group: the matrix
\* handed to applyMatrix4, or the position, quaternion and scale set.
NodeTransform(node) ==
  IF "matrix" \in DOMAIN node
    THEN [kind |-> "matrix", matrix |-> node.matrix]
    ELSE [kind |-> "trs",
          translation |-> Field(node, "translation", <<0, 0, 0>>),
          rotation |-> Field(node, "rotation", <<0, 0, 0, 1>>),
          scale |-> Field(node, "scale", <<1, 1, 1>>)]

NoMeshes == [status |-> "ok", error |-> "", meshes |-> <<>>, warnings |-> <<>>]

\* One turn of the loop over primitives: obj.add(threeMesh) unless
\* buildPrimitive returned null; a throw ends the loop.
AddBuilt(first, rest, primitive, parent) ==
  IF first.status = "throw"
    THEN [status |-> "throw", error |-> first.error, meshes |-> <<>>,
          warnings |-> first.warnings]
  ELSE IF rest.status = "throw"
    THEN [status |-> "throw", error |-> rest.error, meshes |-> <<>>,
          warnings |-> first.warnings \o rest.warnings]
  ELSE [status |-> "ok", error |-> "",
        meshes |-> (IF first.status = "ok"
                      THEN <<[parent |-> parent, primitive |-> primitive,
                              geometry |-> first.geometry, material |-> first.material]>>
                      ELSE <<>>) \o rest.meshes,
        warnings |-> first.warnings \o rest.warnings]

(* The loop over a mesh's primitives: the Meshes built, in order, until a  *)
(* buildPrimitive throws.                                                  *)
RECURSIVE BuildPrimitives(_, _, _, _, _, _)
BuildPrimitives(s, gltf, buffer, bin, primitives, parent) ==
  IF primitives = <<>>
    THEN NoMeshes
    ELSE AddBuilt(buildPrimitive(s, gltf, buffer, bin, Head(primitives)),
                  BuildPrimitives(s, gltf, buffer, bin, Tail(primitives), parent),
                  Head(primitives), parent)

RECURSIVE AllPrimitives(_)
AllPrimitives(meshes) ==
  IF meshes = <<>> THEN <<>> ELSE Head(meshes).primitives \o AllPrimitives(Tail(meshes))

SceneIndexIgnoringDefault(gltf) == Field(gltf, "defaultScene", 0)

\* gltfJson.scene !== undefined ? gltfJson.scene : 0
SceneIndex(gltf) == Field(gltf, "scene", 0)

\* The scene whose roots are composed: nodes and scenes are declared, the
\* selected scene exists and has a nodes list.
HasSceneRoots(gltf) ==
  /\ "nodes" \in DOMAIN gltf
  /\ "scenes" \in DOMAIN gltf
  /\ SceneIndex(gltf) + 1 \in DOMAIN gltf.scenes
  /\ "nodes" \in DOMAIN gltf.scenes[SceneIndex(gltf) + 1]

(* buildSceneFromGLTF, lines 191-203: the entry checks.                    *)
BuildScene ==
  /\ pc = "buildScene"
  /\ IF "meshes" \notin DOMAIN gltfJson \/ Len(gltfJson.meshes) = 0
       THEN Throw("GLB contains no meshes") /\ UNCHANGED stack
     ELSE IF HasSceneRoots(gltfJson)
       THEN /\ stack' = <<Frame(0, gltfJson.scenes[SceneIndex(gltfJson) + 1].nodes)>>
            /\ pc' = "nodes"
            /\ UNCHANGED result
     ELSE /\ pc' = "meshes"
          /\ UNCHANGED <<stack, result>>
  /\ UNCHANGED <<site, arrayBuffer, gltfJson, binaryData, warnings, groups, drawables,
                 accessorVars, appVars, glbVars, layoutVars, screenVars>>

\* The fallback's outcome: the error thrown, or the Group returned.
ReturnMeshes(built) ==
  /\ warnings' = warnings \o built.warnings
  /\ IF built.status = "throw"
       THEN Throw(built.error) /\ UNCHANGED drawables
       ELSE /\ drawables' = drawables \o built.meshes
            /\ result' = [status |-> "ok", error |-> ""]
            /\ pc' = "done"

(* buildSceneFromGLTF, lines 212-220: the fallback over meshes[].          *)
BuildFromMeshes ==
  /\ pc = "meshes"
  /\ ReturnMeshes(BuildPrimitives(site, gltfJson, arrayBuffer, binaryData,
                                  AllPrimitives(gltfJson.meshes), 0))
  /\ UNCHANGED <<site, arrayBuffer, gltfJson, binaryData, stack, groups,
                 accessorVars, appVars, glbVars, layoutVars, screenVars>>

Top == stack[Len(stack)]

\* The caller's loop moves to its next child.
Advance(frames) ==
  [frames EXCEPT ![Len(frames)] = [@ EXCEPT !.k = @ + 1]]

\* processNode from the Group it makes on: the node's Meshes are added to
\* it, its transform is set, and the loop over its children starts.
MakeGroup(nodeIndex, node, built) ==
  IF built.status = "throw"
    THEN /\ Throw(built.error)
         /\ warnings' = warnings \o built.warnings
         /\ UNCHANGED <<stack, groups, drawables>>
    ELSE /\ groups' = Append(groups, [node |-> nodeIndex, attached |-> FALSE,
                                      parent |-> 0, transform |-> NodeTransform(node)])
         /\ drawables' = drawables \o built.meshes
         /\ warnings' = warnings \o built.warnings
         /\ stack' = Append(stack, Frame(Len(groups) + 1, Field(node, "children", <<>>)))
         /\ UNCHANGED <<pc, result>>

(* processNode, lines 223-256: the call for the next child of the frame on *)
(* top, up to the loop over the node's children.                           *)
EnterNode ==
  /\ pc = "nodes"
  /\ Top.k <= Len(Top.children)
  /\ LET nodeIndex == Top.children[Top.k]
         node == gltfJson.nodes[nodeIndex + 1]
     IN IF Len(stack) > MaxStack
          THEN /\ Throw("RangeError: Maximum call stack size exceeded")
               /\ UNCHANGED <<stack, groups, drawables, warnings>>
        ELSE IF nodeIndex + 1 \notin DOMAIN gltfJson.nodes
          THEN /\ stack' = Advance(stack)
               /\ UNCHANGED <<pc, result, groups, drawables, warnings>>
        ELSE IF "mesh" \notin DOMAIN node
          THEN MakeGroup(nodeIndex, node, NoMeshes)
        ELSE IF node.mesh + 1 \notin DOMAIN gltfJson.meshes
          THEN /\ Throw("TypeError")
               /\ UNCHANGED <<stack, groups, drawables, warnings>>
        ELSE MakeGroup(nodeIndex, node,
                       BuildPrimitives(site, gltfJson, arrayBuffer, binaryData,
                                       gltfJson.meshes[node.mesh + 1].primitives,
                                       Len(groups) + 1))
  /\ UNCHANGED <<site, arrayBuffer, gltfJson, binaryData, accessorVars, appVars, glbVars, layoutVars, screenVars>>

(* processNode, line 263, and the caller's obj.add(child) / group.add.     *)
ReturnNode ==
  /\ pc = "nodes"
  /\ Len(stack) > 1
  /\ Top.k > Len(Top.children)
  /\ groups' = [groups EXCEPT ![Top.group] =
                  [@ EXCEPT !.attached = TRUE, !.parent = stack[Len(stack) - 1].group]]
  /\ stack' = Advance(SubSeq(stack, 1, Len(stack) - 1))
  /\ UNCHANGED <<site, pc, arrayBuffer, gltfJson, binaryData, result, warnings, drawables,
                 accessorVars, appVars, glbVars, layoutVars, screenVars>>

(* buildSceneFromGLTF, line 208: every root has been composed.             *)
ReturnScene ==
  /\ pc = "nodes"
  /\ Len(stack) = 1
  /\ Top.k > Len(Top.children)
  /\ result' = [status |-> "ok", error |-> ""]
  /\ pc' = "done"
  /\ stack' = <<>>
  /\ UNCHANGED <<site, arrayBuffer, gltfJson, binaryData, warnings, groups, drawables,
                 accessorVars, appVars, glbVars, layoutVars, screenVars>>

----------------------------------------------------------------------------
(* Numbers of the scene.  A coordinate, a size or a scale factor is an     *)
(* exact fraction n/d in lowest terms with d > 0: the arithmetic is that   *)
(* of the reals, which the doubles of the program follow up to rounding.   *)

Abs(n) == IF n < 0 THEN -n ELSE n

RECURSIVE GCD(_, _)
GCD(a, b) == IF b = 0 THEN a ELSE GCD(b, a % b)

Reduce(n, d, g) == [n |-> n \div g, d |-> d \div g]

Num(n, d) ==
  IF d < 0 THEN Reduce(-n, -d, GCD(Abs(n), Abs(d))) ELSE Reduce(n, d, GCD(Abs(n), Abs(d)))

Plus(a, b) == Num(a.n * b.d + b.n * a.d, a.d * b.d)
Minus(a, b) == Num(a.n * b.d - b.n * a.d, a.d * b.d)
Times(a, b) == Num(a.n * b.n, a.d * b.d)
Over(a, b) == Num(a.n * b.d, a.d * b.n)
Less(a, b) == a.n * b.d < b.n * a.d

\* Math.min and Math.max of two numbers.
Lower(a, b) == IF Less(b, a) THEN b ELSE a
Higher(a, b) == IF Less(a, b) THEN b ELSE a

Whole(n) == Num(n, 1)

\* new THREE.Vector3(): (0, 0, 0).
ZeroVector == <<Whole(0), Whole(0), Whole(0)>>

\* Number.prototype.toFixed(digits) of a number that is not negative: the
\* decimal string of the nearest multiple of 10^-digits, the upper one of
\* two equally near, held as the count of such units.
Pow10(digits) == IF digits = 3 THEN 1000 ELSE 100

ToFixedDown(x, digits) ==
  [digits |-> digits, units |-> (x.n * Pow10(digits)) \div x.d]

ToFixed(x, digits) ==
  [digits |-> digits, units |-> (2 * x.n * Pow10(digits) + x.d) \div (2 * x.d)]

----------------------------------------------------------------------------
(* THREE.Box3 over a root Group.  The Group has a position, a scale and    *)
(* direct children; a child (a node's Group or a Mesh) has a position, a   *)
(* scale and the bounding box, in its own frame, of the geometry at and    *)
(* below it, empty when there is none.  No object is rotated.              *)

\* new THREE.Box3(): the empty box.
EmptyBox == [empty |-> TRUE, min |-> ZeroVector, max |-> ZeroVector]

BoxOf(min, max) == [empty |-> FALSE, min |-> min, max |-> max]

\* Box3.union
Union(a, b) ==
  IF a.empty THEN b
  ELSE IF b.empty THEN a
  ELSE BoxOf([k \in 1..3 |-> Lower(a.min[k], b.min[k])],
             [k \in 1..3 |-> Higher(a.max[k], b.max[k])])

\* A coordinate of the child's frame under the child's matrixWorld.
WorldCoordinate(group, child, k, c) ==
  Plus(group.position[k],
       Times(group.scale[k], Plus(child.position[k], Times(child.scale[k], c))))

\* Box3.expandByObject for one child: its geometry's box under matrixWorld.
ChildBox(group, child) ==
  IF child.box.empty THEN EmptyBox
  ELSE BoxOf([k \in 1..3 |-> Lower(WorldCoordinate(group, child, k, child.box.min[k]),
                                  WorldCoordinate(group, child, k, child.box.max[k]))],
             [k \in 1..3 |-> Higher(WorldCoordinate(group, child, k, child.box.min[k]),
                                   WorldCoordinate(group, child, k, child.box.max[k]))])

RECURSIVE ExpandByChildren(_, _)
ExpandByChildren(group, children) ==
  IF children = <<>> THEN EmptyBox
  ELSE Union(ChildBox(group, Head(children)), ExpandByChildren(group, Tail(children)))

\* new THREE.Box3().setFromObject(group)
setFromObject(group) == ExpandByChildren(group, group.children)

\* Box3.getSize and Box3.getCenter: (0, 0, 0) for the empty box.
getSizeInclusive(box) ==
  IF box.empty THEN ZeroVector
  ELSE [k \in 1..3 |-> Plus(Minus(box.max[k], box.min[k]), Whole(1))]

getSize(box) ==
  IF box.empty THEN ZeroVector ELSE [k \in 1..3 |-> Minus(box.max[k], box.min[k])]

getCenter(box) ==
  IF box.empty THEN ZeroVector
  ELSE [k \in 1..3 |-> Times(Plus(box.min[k], box.max[k]), Num(1, 2))]

\* Math.max(size.x, size.y, size.z)
maxDim(size) == Higher(size[1], Higher(size[2], size[3]))

\* group.traverse(child => { if (child.isMesh) meshCount++ })
RECURSIVE meshCount(_)
meshCount(children) ==
  IF children = <<>> THEN 0 ELSE Head(children).meshes + meshCount(Tail(children))

----------------------------------------------------------------------------
(* normalizeModel.  ARViewScreen.js 423-459 moves the direct children and  *)
(* then scales the Group; ModelViewerScreen.js 454-473 scales the Group    *)
(* and then moves it.  Each returns the Group as it leaves it, the scale   *)
(* factor and offset it applied (null when it returned early) and its      *)
(* return value.                                                           *)

Undefined == [tag |-> "undefined"]

\* { width: 0, height: 0, depth: 0 }
ZeroReport == [width |-> Whole(0), height |-> Whole(0), depth |-> Whole(0)]

\* { width: size.x.toFixed(d), height: size.y.toFixed(d), depth: size.z.toFixed(d) }
Report(size, digits) ==
  [width |-> ToFixed(size[1], digits), height |-> ToFixed(size[2], digits),
   depth |-> ToFixed(size[3], digits)]

ScaleFactorOfTargetOnly(targetSize, dim) == targetSize

\* targetSize / maxDim
ScaleFactor(targetSize, dim) == Over(targetSize, dim)

\* offsetX = -center.x, offsetY = -box.min.y, offsetZ = -center.z
Offsets(box, center) ==
  <<Minus(Whole(0), center[1]), Minus(Whole(0), box.min[2]), Minus(Whole(0), center[3])>>

\* child.position.x += offsetX ... for each direct child of the Group.
OffsetChildren(group, offsets) ==
  [group EXCEPT !.children =
     [c \in DOMAIN group.children |->
        [group.children[c] EXCEPT !.position =
           [k \in 1..3 |-> Plus(group.children[c].position[k], offsets[k])]]]]

\* group.scale.multiplyScalar(scale)
MultiplyScalar(group, scale) ==
  [group EXCEPT !.scale = [k \in 1..3 |-> Times(group.scale[k], scale)]]

Unchanged(group, value) == [group |-> group, applied |-> Null, returned |-> value]

NormalizedAR(group, targetSize, box, size, center) ==
  IF maxDim(size) = Whole(0)
    THEN Unchanged(group, ZeroReport)
    ELSE [group |-> MultiplyScalar(OffsetChildren(group, Offsets(box, center)),
                                   ScaleFactor(targetSize, maxDim(size))),
          applied |-> [scale |-> ScaleFactor(targetSize, maxDim(size)),
                       offset |-> Offsets(box, center)],
          returned |-> Report(size, 3)]

normalizeModelAR(group, targetSize) ==
  NormalizedAR(group, targetSize, setFromObject(group), getSize(setFromObject(group)),
               getCenter(setFromObject(group)))

\* group.position.sub(scaledCenter)
Recentred(group, scaledCenter) ==
  [group |-> [group EXCEPT !.position =
                [k \in 1..3 |-> Minus(group.position[k], scaledCenter[k])]],
   offset |-> [k \in 1..3 |-> Minus(Whole(0), scaledCenter[k])]]

ScaledMV(moved, scale) ==
  [group |-> moved.group, applied |-> [scale |-> scale, offset |-> moved.offset],
   returned |-> Undefined]

NormalizedMV(group, targetSize, size) ==
  IF maxDim(size) = Whole(0)
    THEN Unchanged(group, Undefined)
    ELSE ScaledMV(Recentred(MultiplyScalar(group, ScaleFactor(targetSize, maxDim(size))),
                            getCenter(setFromObject(
                              MultiplyScalar(group, ScaleFactor(targetSize, maxDim(size)))))),
                  ScaleFactor(targetSize, maxDim(size)))

normalizeModelMV(group, targetSize) ==
  NormalizedMV(group, targetSize, getSize(setFromObject(group)))

\* What a call of normalizeModel leaves behind.
Normalize(outcome) ==
  /\ before' = model
  /\ model' = outcome.group
  /\ applied' = outcome.applied
  /\ returned' = outcome.returned
  /\ calls' = calls + 1

(* normalizeModel applied to a Group, and again to the Group it left.      *)
CallNormalizeModelAR ==
  /\ pc = "normalizeModel"
  /\ site = "AR"
  /\ calls < MaxCalls
  /\ Normalize(normalizeModelAR(model, target))
  /\ UNCHANGED <<sharedVars, accessorVars, appVars, glbVars, sceneVars, layoutVars, target,
                 modelDimensions, status, statusMessage, surfaceDetected, modelLoaded>>

CallNormalizeModelMV ==
  /\ pc = "normalizeModel"
  /\ site = "MV"
  /\ calls < MaxCalls
  /\ Normalize(normalizeModelMV(model, target))
  /\ UNCHANGED <<sharedVars, accessorVars, appVars, glbVars, sceneVars, layoutVars, target,
                 modelDimensions, status, statusMessage, surfaceDetected, modelLoaded>>

----------------------------------------------------------------------------
(* loadModel from the return of buildSceneFromGLTF on (ARViewScreen.js     *)
(* 1227-1287, ModelViewerScreen.js 697-727).  The stretch has no await, so *)
(* the screen cannot unmount inside it: mountedRef.current, true at the    *)
(* check before it (1225, 694), is true at every check in it.              *)

\* The Error a throw hands to the catch block.
Raise(error) ==
  /\ result' = [status |-> "throw", error |-> error]
  /\ pc' = "catch"

(* AR screen, 1228-1243: the traversal that counts the Meshes.             *)
CountMeshes ==
  /\ pc = "countMeshes"
  /\ site = "AR"
  /\ IF meshCount(model.children) = 0
       THEN Raise("GLB parsing produced no renderable meshes")
       ELSE pc' = "measure" /\ UNCHANGED result
  /\ UNCHANGED <<site, arrayBuffer, gltfJson, binaryData, warnings, accessorVars, appVars, glbVars,
                 sceneVars, layoutVars, screenVars>>

\* toFixed(3) at the AR screen, toFixed(2) at the viewer.
ReportDigits(s) == IF s = "AR" THEN 3 ELSE 2

(* 1245-1256 and 699-709: the size of the Group's box goes to the screen.  *)
SetModelDimensions ==
  /\ pc = "measure"
  /\ modelDimensions' = Report(getSize(setFromObject(model)), ReportDigits(site))
  /\ pc' = "normalize"
  /\ UNCHANGED <<site, arrayBuffer, gltfJson, binaryData, result, warnings, accessorVars, appVars,
                 glbVars, sceneVars, layoutVars, model, target, before, applied, returned,
                 calls, status, statusMessage, surfaceDetected, modelLoaded>>

(* 1258: normalizeModel(group, 1.5)                                        *)
LoadNormalizeAR ==
  /\ pc = "normalize"
  /\ site = "AR"
  /\ target' = Num(3, 2)
  /\ Normalize(normalizeModelAR(model, Num(3, 2)))
  /\ pc' = "finish"
  /\ UNCHANGED <<site, arrayBuffer, gltfJson, binaryData, result, warnings, accessorVars, appVars,
                 glbVars, sceneVars, layoutVars, modelDimensions, status, statusMessage,
                 surfaceDetected, modelLoaded>>

(* 711: normalizeModel(group, 2.0)                                         *)
LoadNormalizeMV ==
  /\ pc = "normalize"
  /\ site = "MV"
  /\ target' = Whole(2)
  /\ Normalize(normalizeModelMV(model, Whole(2)))
  /\ pc' = "finish"
  /\ UNCHANGED <<site, arrayBuffer, gltfJson, binaryData, result, warnings, accessorVars, appVars,
                 glbVars, sceneVars, layoutVars, modelDimensions, status, statusMessage,
                 surfaceDetected, modelLoaded>>

(* AR screen, 1260-1281: the Group is kept and the screen leaves LOADING.  *)
FinishAR ==
  /\ pc = "finish"
  /\ site = "AR"
  /\ modelLoaded' = TRUE
  /\ status' = (IF surfaceDetected THEN "ready" ELSE "detecting")
  /\ statusMessage' = (IF surfaceDetected THEN "Tap to place model"
                       ELSE "Detecting surfaces...")
  /\ result' = [status |-> "ok", error |-> ""]
  /\ pc' = "done"
  /\ UNCHANGED <<site, arrayBuffer, gltfJson, binaryData, warnings, accessorVars, appVars, glbVars,
                 sceneVars, layoutVars, model, target, before, applied, returned, calls,
                 modelDimensions, surfaceDetected>>

(* Viewer, 713-718: scene.add(group), modelRef, setStatus('loaded').       *)
FinishMV ==
  /\ pc = "finish"
  /\ site = "MV"
  /\ modelLoaded' = TRUE
  /\ status' = "loaded"
  /\ result' = [status |-> "ok", error |-> ""]
  /\ pc' = "done"
  /\ UNCHANGED <<site, arrayBuffer, gltfJson, binaryData, warnings, accessorVars, appVars, glbVars,
                 sceneVars, layoutVars, model, target, before, applied, returned, calls,
                 modelDimensions, statusMessage, surfaceDetected>>

(* The catch blocks, 1282-1287 and 721-727.  statusMessage stands for the  *)
(* viewer's errorMsg.                                                      *)
CatchAR ==
  /\ pc = "catch"
  /\ site = "AR"
  /\ status' = "error"
  /\ statusMessage' = "Failed to load model: " \o result.error
  /\ pc' = "done"
  /\ UNCHANGED <<site, arrayBuffer, gltfJson, binaryData, result, warnings, accessorVars, appVars,
                 glbVars, sceneVars, layoutVars, model, target, before, applied, returned,
                 calls, modelDimensions, surfaceDetected, modelLoaded>>

CatchMV ==
  /\ pc = "catch"
  /\ site = "MV"
  /\ status' = "error"
  /\ statusMessage' = result.error
  /\ pc' = "done"
  /\ UNCHANGED <<site, arrayBuffer, gltfJson, binaryData, result, warnings, accessorVars, appVars,
                 glbVars, sceneVars, layoutVars, model, target, before, applied, returned,
                 calls, modelDimensions, surfaceDetected, modelLoaded>>

----------------------------------------------------------------------------
(* The calls of readAccessor, one per copy of the function.                *)

CallReadAccessorAR ==
  /\ pc = "readAccessor"
  /\ site = "AR"
  /\ result' = readAccessorAR(gltfJson, arrayBuffer, binaryData, accessorIndex)
  /\ warnings' = result'.warnings
  /\ pc' = "done"
  /\ UNCHANGED <<site, arrayBuffer, gltfJson, binaryData, accessorVars, appVars, glbVars, sceneVars, layoutVars, screenVars>>

CallReadAccessorMV ==
  /\ pc = "readAccessor"
  /\ site = "MV"
  /\ result' = readAccessorMV(gltfJson, arrayBuffer, binaryData, accessorIndex)
  /\ warnings' = result'.warnings
  /\ pc' = "done"
  /\ UNCHANGED <<site, arrayBuffer, gltfJson, binaryData, accessorVars, appVars, glbVars, sceneVars, layoutVars, screenVars>>

----------------------------------------------------------------------------
(* The calls of buildMaterial, one per copy of the function, for the first *)
(* primitive of the document's first mesh.                                 *)

FirstPrimitive(gltf) == gltf.meshes[1].primitives[1]

CallBuildMaterialAR ==
  /\ pc = "buildMaterial"
  /\ site = "AR"
  /\ result' = buildMaterialAR(gltfJson, FirstPrimitive(gltfJson))
  /\ pc' = "done"
  /\ UNCHANGED <<site, arrayBuffer, gltfJson, binaryData, warnings, accessorVars, appVars, glbVars,
                 sceneVars, layoutVars, screenVars>>

CallBuildMaterialMV ==
  /\ pc = "buildMaterial"
  /\ site = "MV"
  /\ result' = buildMaterialMV(gltfJson, FirstPrimitive(gltfJson))
  /\ pc' = "done"
  /\ UNCHANGED <<site, arrayBuffer, gltfJson, binaryData, warnings, accessorVars, appVars, glbVars,
                 sceneVars, layoutVars, screenVars>>

(* buildPrimitive called on the first primitive of the first mesh.         *)
CallBuildPrimitive ==
  /\ pc = "buildPrimitive"
  /\ result' = buildPrimitive(site, gltfJson, arrayBuffer, binaryData,
                              FirstPrimitive(gltfJson))
  /\ warnings' = result'.warnings
  /\ pc' = "done"
  /\ UNCHANGED <<site, arrayBuffer, gltfJson, binaryData, accessorVars, appVars, glbVars, sceneVars,
                 layoutVars, screenVars>>

----------------------------------------------------------------------------
(* Two callers of the core.  parseGLB, buildSceneFromGLTF and processNode  *)
(* declare every variable they assign with const or let inside the         *)
(* function (ARViewScreen.js 145-264); the module level holds the tables   *)
(* COMPONENT_TYPES and TYPE_SIZES and the two chunk type numbers, which no *)
(* line assigns.  The engine runs a call to its end; here the other call   *)
(* may run between any two steps of a call, which includes every order the *)
(* engine can produce.                                                     *)

\* The activation of the running call: its arguments and its locals.
CallState ==
  [site |-> site, pc |-> pc, arrayBuffer |-> arrayBuffer, gltfJson |-> gltfJson,
   binaryData |-> binaryData, result |-> result, warnings |-> warnings,
   totalLength |-> totalLength, offset |-> offset, jsonChunk |-> jsonChunk,
   binaryChunk |-> binaryChunk, chunksRead |-> chunksRead, stack |-> stack,
   groups |-> groups, drawables |-> drawables]

ResumedSharingOffset(call) == [call.state EXCEPT !.offset = offset]

\* What a call finds in its variables when it runs again: let offset = 12
\* and the other declarations are the call's own.
Resumed(call) == call.state

\* A call between its first step and its return.
MidCall == pc \notin {"parseGLB", "buildScene", "done"}

\* The engine turns to call i.  The call made alone starts when the other
\* calls have returned.
Switch(i) ==
  /\ running # 0
  /\ i \in DOMAIN suspended
  /\ i # running
  /\ suspended[i].state.pc # "done"
  /\ suspended[i].alone =>
       /\ pc = "done"
       /\ \A j \in DOMAIN suspended \ {i, running} : suspended[j].state.pc = "done"
  /\ LET next == Resumed(suspended[i])
     IN /\ site' = next.site
        /\ pc' = next.pc
        /\ arrayBuffer' = next.arrayBuffer
        /\ gltfJson' = next.gltfJson
        /\ binaryData' = next.binaryData
        /\ result' = next.result
        /\ warnings' = next.warnings
        /\ totalLength' = next.totalLength
        /\ offset' = next.offset
        /\ jsonChunk' = next.jsonChunk
        /\ binaryChunk' = next.binaryChunk
        /\ chunksRead' = next.chunksRead
        /\ stack' = next.stack
        /\ groups' = next.groups
        /\ drawables' = next.drawables
  /\ suspended' = [suspended EXCEPT ![running] =
                     [@ EXCEPT !.state = CallState, !.preempted = @ \/ MidCall]]
  /\ running' = i
  /\ UNCHANGED <<accessorVars, layoutVars, screenVars, backendVars, clientVars, sessionVars>>

SwitchCall == \E i \in DOMAIN suspended : Switch(i)

----------------------------------------------------------------------------
(* The backend: the object's document (models/Object.js), the routes that  *)
(* create it and report its status, and the background poller             *)
(* (routes/objectRoutes.js).  A handler runs from one await to the next    *)
(* without interruption; every await is a point where another handler may  *)
(* run.  A Mongoose document in memory is its fields and the set of paths  *)
(* modified since it was loaded or saved; save() writes the modified paths *)
(* over the stored document.  An error string "" is an undefined error.    *)

\* new ObjectModel({name, imageUrls, modelUrl: '', generationStatus:
\* 'pending'}) with the schema's defaults.
NewObject ==
  [generationStatus |-> "pending", generationTaskId |-> "", generationMethod |-> "",
   generationProgress |-> 0, generationError |-> "", modelUrl |-> ""]

\* ObjectModel.findById: a fresh copy of the stored document.
Loaded(doc) == [doc |-> doc, modified |-> {}]

\* object[path] = value
SetPath(object, path, value) ==
  IF object.doc[path] = value
    THEN object
    ELSE [doc |-> [object.doc EXCEPT ![path] = value],
          modified |-> object.modified \cup {path}]

\* The stored document after object.save().
Written(old, object) ==
  [path \in DOMAIN old |-> IF path \in object.modified THEN object.doc[path] ELSE old[path]]

Saved(object) == [object EXCEPT !.modified = {}]

NoObject == [doc |-> Null, modified |-> {}]

\* A task the provider has not been given; reports: the progress values
\* the provider will report for it.
NoTask == [status |-> "NONE", progress |-> 0, reports |-> {}]

\* a || b for numbers
OrNumber(a, b) == IF a = 0 THEN b ELSE a

\* a || b for strings
OrString(a, b) == IF a = "" THEN b ELSE a

(* modelGenerator.js, meshyCheckAndDownload (255-289) and                  *)
(* tripoCheckAndDownload (434-485): the provider's answer, or FAILED when  *)
(* the request or the download threw.                                      *)
CheckAndDownload(providerTask, answered) ==
  IF ~answered
    THEN [status |-> "FAILED", progress |-> 0, error |-> "Network Error"]
  ELSE IF providerTask.status = "SUCCEEDED"
    THEN [status |-> "SUCCEEDED", progress |-> 100, error |-> ""]
  ELSE IF providerTask.status = "FAILED"
    THEN [status |-> "FAILED", progress |-> providerTask.progress, error |-> "Task failed"]
  ELSE [status |-> providerTask.status, progress |-> providerTask.progress, error |-> ""]

\* modelGenerator.js, checkGenerationStatus (150-162).
checkGenerationStatus(providerTask, method, answered) ==
  IF method \in {"meshy", "tripo"}
    THEN CheckAndDownload(providerTask, answered)
    ELSE [status |-> "FAILED", progress |-> 0, error |-> "Unknown method"]

NoKeysError ==
  "No 3D reconstruction API keys configured. Please set MESHY_API_KEY or TRIPO_API_KEY"

(* modelGenerator.js, startGeneration (118-140).  meshyStarts, tripoStarts: *)
(* the provider accepted the task.                                         *)
startGeneration(apiKeys, images, meshyStarts, tripoStarts) ==
  IF apiKeys.meshy /\ images > 0 /\ meshyStarts
    THEN [status |-> "ok", method |-> "meshy", tried |-> <<"meshy">>, error |-> ""]
  ELSE IF apiKeys.tripo /\ images > 0 /\ tripoStarts
    THEN [status |-> "ok", method |-> "tripo",
          tried |-> (IF apiKeys.meshy /\ images > 0 THEN <<"meshy">> ELSE <<>>)
                    \o <<"tripo">>,
          error |-> ""]
  ELSE [status |-> "throw", method |-> "none",
        tried |-> (IF apiKeys.meshy /\ images > 0 THEN <<"meshy">> ELSE <<>>)
                  \o (IF apiKeys.tripo /\ images > 0 THEN <<"tripo">> ELSE <<>>),
        error |-> NoKeysError]

\* The services generateModel lists, lines 56-70.
Services(apiKeys) ==
  (IF apiKeys.meshy THEN <<"meshy">> ELSE <<>>)
  \o (IF apiKeys.tripo THEN <<"tripo">> ELSE <<>>)

\* The loop over the services, lines 79-90: the first that does not throw.
RECURSIVE TryServices(_, _, _)
TryServices(services, works, tried) ==
  IF services = <<>>
    THEN [status |-> "throw", method |-> "none", tried |-> tried,
          error |-> "All 3D generation methods failed"]
  ELSE IF works[Head(services)]
    THEN [status |-> "ok", method |-> Head(services),
          tried |-> Append(tried, Head(services)), error |-> ""]
  ELSE TryServices(Tail(services), works, Append(tried, Head(services)))

(* modelGenerator.js, generateModel (52-107).  generateWithMeshy and       *)
(* generateWithTripo throw without an image (169-171, 296-298); otherwise  *)
(* meshyWorks, tripoWorks say whether the service delivered the file.      *)
generateModel(apiKeys, images, meshyWorks, tripoWorks) ==
  IF Services(apiKeys) = <<>>
    THEN [status |-> "throw", method |-> "none", tried |-> <<>>, error |-> NoKeysError]
    ELSE TryServices(Services(apiKeys),
                     [meshy |-> images > 0 /\ meshyWorks,
                      tripo |-> images > 0 /\ tripoWorks], <<>>)

\* Lines 22-39 of objectRoutes.js: a request without a name is answered
\* 400; otherwise the document is made with status pending and saved.
PostCreate ==
  /\ route.pc = "received"
  /\ IF ~route.name
       THEN /\ route' = [route EXCEPT !.pc = "done", !.response = 400]
            /\ UNCHANGED stored
       ELSE /\ route' = [route EXCEPT !.pc = "created", !.object = Loaded(NewObject)]
            /\ stored' = NewObject
  /\ UNCHANGED <<keys, poller, requests, task, regen, notBackendVars>>

\* Lines 41-43 and 63-73, or 75-77: status processing is saved; in the
\* background mode the response is sent while startGeneration is awaited.
PostProcessing ==
  /\ route.pc = "created"
  /\ LET object == SetPath(route.object, "generationStatus", "processing")
     IN /\ stored' = Written(stored, object)
        /\ route' = IF route.isAsync
                      THEN [route EXCEPT !.pc = "background", !.object = Saved(object),
                                         !.response = 201]
                      ELSE [route EXCEPT !.pc = "generate", !.object = Saved(object)]
  /\ UNCHANGED <<keys, poller, requests, task, regen, notBackendVars>>

\* The provider task the create route starts and the one the regenerate
\* route starts, and the activations of pollUntilComplete that watch them.
TaskOf(generationTaskId) == IF generationTaskId = "task1" THEN 1 ELSE 2

\* save() validates the modified paths: generationProgress has min 0 and
\* max 100 (models/Object.js 32-37), and save rejects otherwise.
SaveRejected(object) ==
  /\ "generationProgress" \in object.modified
  /\ object.doc.generationProgress \notin 0..100

\* Lines 45-61: startGeneration has settled.  The task's id and method
\* are saved and the poller is started, or the object is marked failed.
PostStart ==
  /\ route.pc = "background"
  /\ \E meshyStarts \in BOOLEAN, tripoStarts \in BOOLEAN :
       LET genResult == startGeneration(keys, route.images, meshyStarts, tripoStarts)
           started == SetPath(SetPath(route.object, "generationTaskId", "task1"),
                              "generationMethod", genResult.method)
           failed == SetPath(SetPath(route.object, "generationStatus", "failed"),
                             "generationError", genResult.error)
       IN IF genResult.status = "ok"
            THEN /\ stored' = Written(stored, started)
                 /\ route' = [route EXCEPT !.pc = "done", !.object = Saved(started),
                                            !.generation = genResult]
                 /\ task' = [task EXCEPT ![1].status = "IN_PROGRESS"]
                 /\ poller' = [poller EXCEPT ![1].pc = "sleep",
                                             ![1].method = genResult.method]
            ELSE /\ stored' = Written(stored, failed)
                 /\ route' = [route EXCEPT !.pc = "done", !.object = Saved(failed),
                                            !.generation = genResult]
                 /\ UNCHANGED <<task, poller>>
  /\ UNCHANGED <<keys, requests, regen, notBackendVars>>

\* Lines 79-98 and 100-106: generateModel has settled.  The object is
\* saved as completed and answered 201, or the request is answered 500.
PostGenerate ==
  /\ route.pc = "generate"
  /\ \E meshyWorks \in BOOLEAN, tripoWorks \in BOOLEAN :
       LET modelResult == generateModel(keys, route.images, meshyWorks, tripoWorks)
           completed ==
             SetPath(SetPath(SetPath(SetPath(route.object,
               "modelUrl", "/uploads/models/id.glb"),
               "generationStatus", "completed"),
               "generationProgress", 100),
               "generationMethod", modelResult.method)
       IN IF modelResult.status = "ok"
            THEN /\ stored' = Written(stored, completed)
                 /\ route' = [route EXCEPT !.pc = "done", !.object = Saved(completed),
                                            !.response = 201, !.generation = modelResult]
            ELSE /\ route' = [route EXCEPT !.pc = "done", !.response = 500,
                                            !.generation = modelResult]
                 /\ UNCHANGED stored
  /\ UNCHANGED <<keys, poller, requests, task, regen, notBackendVars>>

\* Lines 262-285 of objectRoutes.js: findById; 404 without the object, 400
\* without an image; otherwise the loaded document is reset.
RegenerateFind ==
  /\ regen.pc = "received"
  /\ regen' =
       IF stored = Null
         THEN [regen EXCEPT !.pc = "done", !.response = 404]
       ELSE IF route.images = 0
         THEN [regen EXCEPT !.pc = "done", !.response = 400]
         ELSE [regen EXCEPT !.pc = "save",
                 !.object = SetPath(SetPath(SetPath(SetPath(Loaded(stored),
                              "generationStatus", "processing"),
                              "generationProgress", 0),
                              "generationError", ""),
                              "modelUrl", "")]
  /\ UNCHANGED <<keys, stored, route, poller, requests, task, notBackendVars>>

\* Line 286 and 304-308: the save has settled; the response is sent while
\* startGeneration is awaited.
RegenerateSave ==
  /\ regen.pc = "save"
  /\ stored' = Written(stored, regen.object)
  /\ regen' = [regen EXCEPT !.pc = "background", !.object = Saved(@), !.response = 200]
  /\ UNCHANGED <<keys, route, poller, requests, task, notBackendVars>>

\* Lines 288-302: startGeneration has settled.  The task's id and method
\* are saved and a poller is started, or the object is marked failed.
RegenerateStart ==
  /\ regen.pc = "background"
  /\ \E meshyStarts \in BOOLEAN, tripoStarts \in BOOLEAN :
       LET genResult == startGeneration(keys, route.images, meshyStarts, tripoStarts)
           started == SetPath(SetPath(regen.object, "generationTaskId", "task2"),
                              "generationMethod", genResult.method)
           failed == SetPath(SetPath(regen.object, "generationStatus", "failed"),
                             "generationError", genResult.error)
       IN IF genResult.status = "ok"
            THEN /\ stored' = Written(stored, started)
                 /\ regen' = [regen EXCEPT !.pc = "done", !.object = Saved(started)]
                 /\ task' = [task EXCEPT ![2].status = "IN_PROGRESS"]
                 /\ poller' = [poller EXCEPT ![2].pc = "sleep",
                                             ![2].method = genResult.method]
            ELSE /\ stored' = Written(stored, failed)
                 /\ regen' = [regen EXCEPT !.pc = "done", !.object = Saved(failed)]
                 /\ UNCHANGED <<task, poller>>
  /\ UNCHANGED <<keys, route, requests, notBackendVars>>

\* The provider works on a task: it reports a progress, success or
\* failure.
TaskAdvance ==
  /\ \E t \in DOMAIN task :
       /\ task[t].status = "IN_PROGRESS"
       /\ \/ \E progress \in task[t].reports \ {task[t].progress} :
               task' = [task EXCEPT ![t].progress = progress]
          \/ task' = [task EXCEPT ![t].status = "SUCCEEDED", ![t].progress = 100]
          \/ task' = [task EXCEPT ![t].status = "FAILED"]
  /\ UNCHANGED <<keys, stored, route, poller, requests, regen, notBackendVars>>

\* pollUntilComplete, lines 331-332: the five minutes are not over and the
\* sleep of POLL_INTERVAL has ended.
PollerWake ==
  /\ \E p \in DOMAIN poller :
       /\ poller[p].pc = "sleep"
       /\ poller[p].polls < MaxPolls
       /\ poller' = [poller EXCEPT ![p].pc = "find", ![p].polls = @ + 1]
  /\ UNCHANGED <<keys, stored, route, requests, task, regen, notBackendVars>>

\* Line 331: the five minutes are over; at least one turn has been made.
PollerExpire ==
  /\ \E p \in DOMAIN poller :
       /\ poller[p].pc = "sleep"
       /\ poller[p].polls >= 1
       /\ poller' = [poller EXCEPT ![p].pc = "expired"]
  /\ UNCHANGED <<keys, stored, route, requests, task, regen, notBackendVars>>

\* Lines 335-339: findById; the poller stops unless the object is
\* processing.
PollerFind ==
  /\ \E p \in DOMAIN poller :
       /\ poller[p].pc = "find"
       /\ poller' = [poller EXCEPT ![p].object = Loaded(stored),
                                   ![p].pc = IF stored.generationStatus # "processing"
                                               THEN "done" ELSE "check"]
  /\ UNCHANGED <<keys, stored, route, requests, task, regen, notBackendVars>>

\* Lines 341-365: checkGenerationStatus has settled for the task the
\* poller was started with, and the loaded document is changed; save is
\* called unless nothing changed.
PollerCheck ==
  /\ \E p \in DOMAIN poller, answered \in BOOLEAN :
       /\ poller[p].pc = "check"
       /\ LET checked == checkGenerationStatus(task[p], poller[p].method, answered)
              object == poller[p].object
          IN poller' =
               IF checked.status = "SUCCEEDED"
                 THEN [poller EXCEPT ![p].pc = "save",
                         ![p].object = SetPath(SetPath(SetPath(object,
                                         "generationStatus", "completed"),
                                         "generationProgress", 100),
                                         "modelUrl", "/uploads/models/id.glb")]
               ELSE IF checked.status = "FAILED"
                 THEN [poller EXCEPT ![p].pc = "save",
                         ![p].object = SetPath(SetPath(object,
                                         "generationStatus", "failed"),
                                         "generationError",
                                         OrString(checked.error, "Generation failed"))]
               ELSE IF checked.progress > object.doc.generationProgress
                 THEN [poller EXCEPT ![p].pc = "save",
                         ![p].object = SetPath(object, "generationProgress",
                                               checked.progress)]
               ELSE [poller EXCEPT ![p].pc = "sleep"]
  /\ UNCHANGED <<keys, stored, route, requests, task, regen, notBackendVars>>

\* The poller's save has settled: it returns after completed or failed and
\* goes on otherwise; a rejected save is caught (line 366) and the poller
\* goes on.
PollerSave ==
  /\ \E p \in DOMAIN poller :
       /\ poller[p].pc = "save"
       /\ IF SaveRejected(poller[p].object)
            THEN /\ poller' = [poller EXCEPT ![p].pc = "sleep"]
                 /\ UNCHANGED stored
            ELSE /\ stored' = Written(stored, poller[p].object)
                 /\ poller' =
                      [poller EXCEPT ![p].object = Saved(@),
                         ![p].pc = IF poller[p].object.doc.generationStatus = "processing"
                                     THEN "sleep" ELSE "done"]
  /\ UNCHANGED <<keys, route, requests, task, regen, notBackendVars>>

\* Lines 369-380: after the five minutes, findById; an object that is
\* still processing is marked failed.
PollerExpired ==
  /\ \E p \in DOMAIN poller :
       /\ poller[p].pc = "expired"
       /\ poller' =
            IF stored.generationStatus = "processing"
              THEN [poller EXCEPT ![p].pc = "save",
                      ![p].object = SetPath(SetPath(Loaded(stored),
                                      "generationStatus", "failed"),
                                      "generationError",
                                      "Generation timed out after 5 minutes")]
              ELSE [poller EXCEPT ![p].pc = "done", ![p].object = Loaded(stored)]
  /\ UNCHANGED <<keys, stored, route, requests, task, regen, notBackendVars>>

\* What router.get('/:id/status') answers, lines 148-157.
StatusBody(doc) ==
  [code |-> 200, generationStatus |-> doc.generationStatus,
   generationProgress |-> doc.generationProgress, generationError |-> doc.generationError,
   modelUrl |-> doc.modelUrl]

\* Lines 115-121: findById; 404 without the object; the provider is asked
\* only for an object that is processing and has a task of a remote method.
StatusFind(i) ==
  /\ requests[i].pc = "idle"
  /\ requests' =
       [requests EXCEPT ![i] =
          IF stored = Null
            THEN [@ EXCEPT !.pc = "done", !.response = [code |-> 404]]
          ELSE IF /\ stored.generationStatus = "processing"
                  /\ stored.generationTaskId # ""
                  /\ stored.generationMethod # "local"
            THEN [@ EXCEPT !.pc = "check", !.object = Loaded(stored)]
          ELSE [@ EXCEPT !.pc = "done", !.object = Loaded(stored),
                         !.response = StatusBody(stored)]]
  /\ UNCHANGED <<keys, stored, route, poller, task, regen, notBackendVars>>

\* Lines 122-141: checkGenerationStatus has settled for the task the
\* loaded document names, and the document is changed; save is called on
\* every branch.
StatusCheck(i) ==
  /\ requests[i].pc = "check"
  /\ \E answered \in BOOLEAN :
       LET checked == checkGenerationStatus(
                        task[TaskOf(requests[i].object.doc.generationTaskId)],
                        requests[i].object.doc.generationMethod, answered)
           object == SetPath(requests[i].object, "generationProgress",
                             OrNumber(checked.progress,
                                      requests[i].object.doc.generationProgress))
       IN requests' =
            [requests EXCEPT ![i] =
               [@ EXCEPT !.pc = "save",
                  !.object =
                    IF checked.status = "SUCCEEDED"
                      THEN SetPath(SetPath(SetPath(object,
                             "generationStatus", "completed"),
                             "generationProgress", 100),
                             "modelUrl", "/uploads/models/id.glb")
                    ELSE IF checked.status = "FAILED"
                      THEN SetPath(SetPath(object,
                             "generationStatus", "failed"),
                             "generationError",
                             OrString(checked.error, "Generation failed"))
                    ELSE object]]
  /\ UNCHANGED <<keys, stored, route, poller, task, regen, notBackendVars>>

\* The request's save has settled and the loaded document is answered; a
\* rejected save is caught (lines 143-146) and the loaded document is
\* answered as well.
StatusSave(i) ==
  /\ requests[i].pc = "save"
  /\ IF SaveRejected(requests[i].object)
       THEN UNCHANGED stored
       ELSE stored' = Written(stored, requests[i].object)
  /\ requests' = [requests EXCEPT ![i] =
                    [@ EXCEPT !.pc = "done",
                              !.object = IF SaveRejected(requests[i].object)
                                           THEN @ ELSE Saved(@),
                              !.response = StatusBody(requests[i].object.doc)]]
  /\ UNCHANGED <<keys, route, poller, task, regen, notBackendVars>>

StatusRequest == \E i \in DOMAIN requests : StatusFind(i) \/ StatusCheck(i) \/ StatusSave(i)

----------------------------------------------------------------------------
(* The frontend's api service, waitForGeneration (services/api.js 103-144). *)
(* The status endpoint is the environment: it answers the object's status  *)
(* as it is now, or the request fails.                                     *)

\* error.message.includes('Network'), over the messages of the model.
IncludesNetwork(message) == message \in {"Network Error", "Network unreachable (task)"}

\* The catch block, lines 133-137: rethrow, or wait and poll again.
\* error.message && !error.message.includes('Network')
Rethrown(message) == message # "" /\ ~IncludesNetwork(message)

\* The call after an error was caught.
Caught(call, message) ==
  IF Rethrown(message)
    THEN [call EXCEPT !.pc = "done", !.thrown = message]
    ELSE [call EXCEPT !.pc = "loop", !.retries = Append(@, message)]

\* Lines 116-131: the call after the endpoint answered.
Answered(call, answer) ==
  LET seen == [call EXCEPT !.seen = Append(@, answer),
                           !.progress = Append(@, <<OrNumber(answer.generationProgress, 0),
                                                     answer.generationStatus>>)]
  IN IF answer.generationStatus = "completed"
       THEN [seen EXCEPT !.pc = "done", !.returned = answer]
     ELSE IF answer.generationStatus = "failed"
       THEN Caught(seen, OrString(answer.generationError, "Model generation failed"))
     ELSE [seen EXCEPT !.pc = "loop"]

\* What axios.get throws: no connection, a timeout, a 500 answer.
RequestErrors ==
  {"Network Error", "timeout of 15000ms exceeded", "Request failed with status code 500"}

\* Lines 113-138: maxDuration has not elapsed; one turn of the loop, up
\* to the end of the wait for the next poll.
WaitPoll ==
  /\ wait.pc = "loop"
  /\ wait.polls < MaxWaitPolls
  /\ \/ wait' = Answered([wait EXCEPT !.polls = @ + 1], server)
     \/ \E message \in RequestErrors :
          wait' = Caught([wait EXCEPT !.polls = @ + 1, !.failures = Append(@, message)],
                         message)
  /\ UNCHANGED <<server, notClientVars>>

\* Lines 113 and 141: maxDuration has elapsed.
WaitTimeout ==
  /\ wait.pc = "loop"
  /\ wait.polls >= 1
  /\ wait' = [wait EXCEPT !.pc = "done", !.thrown = "Model generation timed out",
                          !.elapsed = TRUE]
  /\ UNCHANGED <<server, notClientVars>>

\* The texts the backend stores as generationError: none, the provider's
\* task error, the message of an error caught while asking the provider.
GenerationErrors == {"", "Task failed", "Network Error", "Network unreachable (task)"}

\* The object's generation goes on or ends on the backend.  The progress
\* the status route answers is the provider's last report, or an older one
\* written late by another handler (objectRoutes.js 131): it rises or falls.
ServerAdvance ==
  /\ server.generationStatus = "processing"
  /\ \/ \E progress \in {20, 50} \ {server.generationProgress} :
          server' = [server EXCEPT !.generationProgress = progress]
     \/ server' = [server EXCEPT !.generationStatus = "completed",
                                 !.generationProgress = 100]
     \/ \E error \in GenerationErrors :
          server' = [server EXCEPT !.generationStatus = "failed",
                                  !.generationError = error]
  /\ UNCHANGED <<wait, notClientVars>>

----------------------------------------------------------------------------
(* The AR screen's handlers (ARViewScreen.js 732-923).  A handler runs to  *)
(* its end.  setArState takes effect when React renders again: until then  *)
(* the handlers made by the last render, and the views it mounted, are the *)
(* ones that receive events.  Numbers are fractions n/d; 1/0 is Infinity   *)
(* and 0/0 is NaN.  An object of the scene is a record with an id.         *)

NaN == [n |-> 0, d |-> 0]
Infinity == [n |-> 1, d |-> 0]

IsNaN(a) == a.n = 0 /\ a.d = 0

\* a / b for numbers that are not negative.
Divide(a, b) ==
  IF IsNaN(a) \/ IsNaN(b) THEN NaN
  ELSE IF b.n = 0 THEN (IF a.n = 0 THEN NaN ELSE Infinity)
  ELSE IF a.d = 0 THEN (IF b.d = 0 THEN NaN ELSE Infinity)
  ELSE Over(a, b)

\* a * b for numbers that are not negative.
Multiply(a, b) ==
  IF IsNaN(a) \/ IsNaN(b) THEN NaN
  ELSE IF a.d = 0 \/ b.d = 0 THEN (IF a.n = 0 \/ b.n = 0 THEN NaN ELSE Infinity)
  ELSE Times(a, b)

\* Math.min and Math.max: NaN when an argument is NaN.
MathMin(a, b) == IF IsNaN(a) \/ IsNaN(b) THEN NaN ELSE IF Less(b, a) THEN b ELSE a
MathMax(a, b) == IF IsNaN(a) \/ IsNaN(b) THEN NaN ELSE IF Less(a, b) THEN b ELSE a

\* Math.sqrt of a square.
Sqrt(n) == CHOOSE r \in 0..n : r * r = n

\* Math.sqrt(dx * dx + dy * dy) between the two touches.
PinchDistance(touches) ==
  LET dx == touches[1][1] - touches[2][1]
      dy == touches[1][2] - touches[2][2]
  IN Whole(Sqrt(dx * dx + dy * dy))

\* Math.max(0.2, Math.min(5.0, modelScaleRef.current * scaleFactor))
Clamped(scale, scaleFactor) ==
  MathMax(Num(1, 5), MathMin(Whole(5), Multiply(scale, scaleFactor)))

Uniform(s) == <<s, s, s>>

\* object.scale.set(s, s, s) on the object with the id, if there is one.
ScaleSet(objects, id, s) ==
  {IF object.id = id THEN [object EXCEPT !.scale = Uniform(s)] ELSE object :
     object \in objects}

\* scene.remove(object)
Remove(objects, id) == {object \in objects : object.id # id}

\* onPanResponderGrant, lines 740-754.
Grant(touches) ==
  /\ ar.rendered = "placed"
  /\ ar.events < MaxEvents
  /\ ar' = IF Len(touches) = 1
             THEN [ar EXCEPT !.lastTouch = touches[1], !.lastPinchDist = Null,
                             !.events = @ + 1]
           ELSE IF Len(touches) = 2
             THEN [ar EXCEPT !.lastTouch = Null, !.lastPinchDist = PinchDistance(touches),
                             !.events = @ + 1]
           ELSE [ar EXCEPT !.events = @ + 1]
  /\ UNCHANGED <<sceneRef, load, notSessionVars>>

\* onPanResponderMove, lines 756-802.  The rotation is held in units of
\* the sensitivity, 0.008 radians.
Move(touches) ==
  /\ ar.rendered = "placed"
  /\ ar.events < MaxEvents
  /\ IF ~ar.modelPlaced \/ ar.placedModel = 0
       THEN /\ ar' = [ar EXCEPT !.events = @ + 1]
            /\ UNCHANGED sceneRef
     ELSE IF Len(touches) = 1 /\ ar.lastTouch # Null
       THEN LET dx == touches[1][1] - ar.lastTouch[1]
                dy == touches[1][2] - ar.lastTouch[2]
                rotation == [x |-> ar.modelRotation.x + dy, y |-> ar.modelRotation.y + dx]
            IN /\ ar' = [ar EXCEPT !.modelRotation = rotation, !.lastTouch = touches[1],
                                    !.events = @ + 1]
               /\ sceneRef' = {IF object.id = ar.placedModel
                              THEN [object EXCEPT !.rotation = rotation] ELSE object :
                            object \in sceneRef}
     ELSE IF Len(touches) = 2
       THEN LET dist == PinchDistance(touches)
                s == Clamped(ar.modelScale, Divide(dist, ar.lastPinchDist))
            IN IF ar.lastPinchDist # Null
                 THEN /\ ar' = [ar EXCEPT !.modelScale = s, !.lastPinchDist = dist,
                                          !.lastTouch = Null, !.events = @ + 1]
                      /\ sceneRef' = ScaleSet(ScaleSet(sceneRef, ar.placedModel, s),
                                           ar.shadowDisc, s)
                 ELSE /\ ar' = [ar EXCEPT !.lastPinchDist = dist, !.lastTouch = Null,
                                          !.events = @ + 1]
                      /\ UNCHANGED sceneRef
     ELSE /\ ar' = [ar EXCEPT !.events = @ + 1]
          /\ UNCHANGED sceneRef
  /\ UNCHANGED <<load, notSessionVars>>

\* onPanResponderRelease, lines 804-807.
Release ==
  /\ ar.rendered = "placed"
  /\ ar.events < MaxEvents
  /\ ar' = [ar EXCEPT !.lastTouch = Null, !.lastPinchDist = Null, !.events = @ + 1]
  /\ UNCHANGED <<sceneRef, load, notSessionVars>>

\* The views of lines 1375-1388 receive a touch event.
Gesture ==
  \E touches \in {<<point>> : point \in {<<3, 4>>, <<6, 8>>}}
                 \cup {<<<<0, 0>>, point>> : point \in {<<0, 0>>, <<3, 4>>, <<30, 40>>}} :
    Grant(touches) \/ Move(touches)

\* handleTapToPlace, lines 810-891, as made by the last render: its
\* arState is the state that render saw.
TapToPlace ==
  /\ ar.rendered = "ready"
  /\ ar.events < MaxEvents
  /\ IF ~ar.modelLoaded
       THEN /\ ar' = [ar EXCEPT !.events = @ + 1]
            /\ UNCHANGED sceneRef
       ELSE /\ sceneRef' = sceneRef \cup
                  {[id |-> ar.nextId, kind |-> "wrapper", scale |-> Uniform(Whole(1)),
                    rotation |-> [x |-> 0, y |-> 0]],
                   [id |-> ar.nextId + 1, kind |-> "shadow", scale |-> Uniform(Whole(1)),
                    rotation |-> [x |-> 0, y |-> 0]]}
            /\ ar' = [ar EXCEPT !.placedModel = ar.nextId, !.modelPlaced = TRUE,
                                !.shadowDisc = ar.nextId + 1, !.nextId = @ + 2,
                                !.modelRotation = [x |-> 0, y |-> 0],
                                !.modelScale = Whole(1),
                                !.arState = IF ar.mounted THEN "placed" ELSE @,
                                !.statusMessage = IF ar.mounted
                                                    THEN "Model placed! Use controls to adjust."
                                                  ELSE @,
                                !.events = @ + 1]
  /\ UNCHANGED <<load, notSessionVars>>

\* A touch on the screen while the last render saw loading, detecting or
\* error: the tap overlay is part of the render of ready only (lines
\* 1382-1388) and the gesture view of the render of placed (1375-1380), so
\* no handler is called.
TouchUntaken ==
  /\ ar.rendered \notin {"ready", "placed"}
  /\ ar.events < MaxEvents
  /\ ar' = [ar EXCEPT !.events = @ + 1]
  /\ UNCHANGED <<sceneRef, load, notSessionVars>>

\* handleReset, lines 893-923; the button is enabled when the last render
\* saw the state placed.
Reset ==
  /\ ar.rendered = "placed"
  /\ ar.events < MaxEvents
  /\ sceneRef' = Remove(Remove(sceneRef, ar.placedModel), ar.shadowDisc)
  /\ ar' = [ar EXCEPT !.placedModel = 0, !.shadowDisc = 0, !.modelPlaced = FALSE,
                      !.modelRotation = [x |-> 0, y |-> 0], !.modelScale = Whole(1),
                      !.arState = IF ar.mounted THEN "ready" ELSE @,
                      !.statusMessage = IF ar.mounted THEN "Tap to place model" ELSE @,
                      !.events = @ + 1]
  /\ UNCHANGED <<load, notSessionVars>>

\* React renders the component with the state set last.
Render ==
  /\ ar.rendered # ar.arState
  /\ ar' = [ar EXCEPT !.rendered = ar.arState]
  /\ UNCHANGED <<sceneRef, load, notSessionVars>>

----------------------------------------------------------------------------
(* One mount of a screen: onContextCreate, loadModel up to the return of   *)
(* its awaits, the surface-detection timer, the render loop and the        *)
(* cleanup of the mount effect (ARViewScreen.js 654-686, 1026-1288;        *)
(* ModelViewerScreen.js 504-513, 581-742).  JavaScript runs a callback to  *)
(* its end, so the screen unmounts only while loadModel waits at an await, *)
(* a timer is pending or a frame is requested.  The stretch of loadModel   *)
(* after the second await has no await in it and is one step here; whether *)
(* it installs a model or throws is an input (load.glb).  load.issued is   *)
(* the list of React state updates issued so far; load.status and          *)
(* load.message are the state and, at the AR screen, the status message    *)
(* these callbacks set last.                                               *)

NoLoad ==
  [at |-> "none", caller |-> "", mounted |-> FALSE, url |-> "ok", glb |-> "loads",
   issued |-> <<>>, status |-> "loading", message |-> "Loading model...", modelLoaded |-> FALSE, inScene |-> FALSE,
   timer |-> "none", surfaceDetected |-> FALSE, animFrame |-> FALSE, frames |-> 0,
   retries |-> 0, unmountedAt |-> "", atUnmount |-> Null]

ReturnsNever(l) == FALSE

\* if (!mountedRef.current) return;
Returns(l) == ~l.mounted

\* React state updates issued one after the other.
Issue(l, updates) == [l EXCEPT !.issued = @ \o updates]

\* if (mountedRef.current) { the updates }
IfMounted(l, updates) == IF l.mounted THEN Issue(l, updates) ELSE l

\* The catch block of loadModel: 1282-1287 at the AR screen, 721-727 at
\* the viewer; loadModel returns.
CatchLoad(s, l) ==
  IF l.mounted
    THEN [Issue(l, IF s = "AR" THEN <<"setArState(ERROR)", "setStatusMessage">>
                   ELSE <<"setStatus(error)", "setErrorMsg">>)
            EXCEPT !.status = "error", !.at = "returned",
                   !.message = IF s = "AR" THEN "Failed to load model" ELSE @]
    ELSE [l EXCEPT !.at = "returned"]

\* loadModel from the return of readAsStringAsync to its end: 1210-1281 at
\* the AR screen, 683-720 at the viewer.
Built(s, l) ==
  IF Returns(l) THEN [l EXCEPT !.at = "returned"]
  ELSE IF l.glb = "throws"
    THEN CatchLoad(s, IF s = "MV" THEN Issue(l, <<"setLoadProgress">>) ELSE l)
  ELSE IF s = "AR"
    THEN [IfMounted(IfMounted(l, <<"setModelDimensions">>),
                    IF l.surfaceDetected THEN <<"setArState(READY)", "setStatusMessage">>
                    ELSE <<"setStatusMessage", "setArState(DETECTING)">>)
            EXCEPT !.modelLoaded = TRUE,
                   !.status = IF l.surfaceDetected THEN "ready" ELSE "detecting",
                   !.message = IF l.surfaceDetected THEN "Tap to place model"
                               ELSE "Detecting surfaces...",
                   !.at = "returned"]
  ELSE [IfMounted(IfMounted(Issue(l, <<"setLoadProgress", "setLoadProgress">>),
                            <<"setModelDimensions">>),
                  <<"setStatus(loaded)">>)
          EXCEPT !.modelLoaded = TRUE, !.inScene = TRUE, !.status = "loaded",
                 !.at = "returned"]

\* loadModel from its start to the first await: 1182-1200 and 656-674.
Started(s, l) ==
  IF l.url = "none" THEN CatchLoad(s, l)
  ELSE [IfMounted(l, <<IF s = "AR" THEN "setStatusMessage" ELSE "setLoadProgress">>)
          EXCEPT !.at = "download",
                 !.message = IF s = "AR" /\ l.mounted THEN "Downloading model..." ELSE @]

\* render(): 1126-1128 and 624-626.
RenderFrame(l) ==
  IF Returns(l) THEN [l EXCEPT !.animFrame = FALSE]
  ELSE [l EXCEPT !.animFrame = TRUE, !.frames = @ + 1]

\* onContextCreate after loadModel has returned: the timer is set at the
\* AR screen (1080-1104) and the render loop is started (1176, 650).  The
\* load started by handleRetry has nothing after it.
Continued(s, l) ==
  IF l.at # "returned" THEN l
  ELSE IF l.caller = "handleRetry" THEN [l EXCEPT !.at = "done"]
  ELSE RenderFrame([l EXCEPT !.at = "done",
                             !.timer = IF s = "AR" THEN "pending" ELSE @])

\* The AR screen's state after a step of the load: arState and
\* statusMessage where the step set them, and the refs.
Follow(a, l, m) ==
  IF site # "AR" THEN a
  ELSE [a EXCEPT !.arState = IF m.status # l.status THEN m.status ELSE @,
                 !.statusMessage = IF m.message # l.message THEN m.message ELSE @,
                 !.modelLoaded = m.modelLoaded,
                 !.mounted = m.mounted]

\* The GLView hands its context to onContextCreate: 1026-1028, 581-583.
ContextCreate ==
  /\ load.at = "created"
  /\ load' = IF Returns(load) THEN [load EXCEPT !.at = "done"]
             ELSE Continued(site, Started(site, [load EXCEPT !.caller = "onContextCreate"]))
  /\ ar' = Follow(ar, load, load')
  /\ UNCHANGED <<sceneRef, notSessionVars>>

\* FileSystem.downloadAsync settles: 1200-1204, 671-677.
DownloadSettles ==
  /\ load.at = "download"
  /\ \E settled \in {"resolved", "rejected"} :
       load' = Continued(site,
                 IF settled = "rejected" THEN CatchLoad(site, load)
                 ELSE IF Returns(load) THEN [load EXCEPT !.at = "returned"]
                 ELSE [Issue(load, <<IF site = "AR" THEN "setStatusMessage"
                                     ELSE "setLoadProgress">>)
                         EXCEPT !.at = "read",
                                !.message = IF site = "AR" THEN "Detecting surfaces..."
                                            ELSE @])
  /\ ar' = Follow(ar, load, load')
  /\ UNCHANGED <<sceneRef, notSessionVars>>

\* FileSystem.readAsStringAsync settles: 1206-1210, 679-683.
ReadSettles ==
  /\ load.at = "read"
  /\ \E settled \in {"resolved", "rejected"} :
       load' = Continued(site,
                 IF settled = "rejected" THEN CatchLoad(site, load)
                 ELSE Built(site, load))
  /\ ar' = Follow(ar, load, load')
  /\ UNCHANGED <<sceneRef, notSessionVars>>

\* The surface-detection timer of the AR screen fires: 1080-1104.
TimerFires ==
  /\ load.timer = "pending"
  /\ load' = IF Returns(load) THEN [load EXCEPT !.timer = "fired"]
             ELSE [IfMounted(load, IF load.modelLoaded
                                     THEN <<"setArState(READY)", "setStatusMessage">>
                                   ELSE <<"setStatusMessage">>)
                     EXCEPT !.timer = "fired", !.surfaceDetected = TRUE,
                            !.status = IF load.modelLoaded THEN "ready" ELSE @,
                            !.message = IF load.modelLoaded THEN "Tap to place model"
                                        ELSE "Surface found! Loading model..."]
  /\ ar' = Follow(ar, load, load')
  /\ UNCHANGED <<sceneRef, notSessionVars>>

\* The frame requested by render() is due.
AnimationFrame ==
  /\ load.animFrame
  /\ load.frames < MaxFrames
  /\ load' = RenderFrame(load)
  /\ ar' = Follow(ar, load, load')
  /\ UNCHANGED <<sceneRef, notSessionVars>>

\* handleRetry of the viewer, 730-742; its button is shown in the state
\* error.
Retry ==
  /\ site = "MV"
  /\ load.mounted
  /\ load.status = "error"
  /\ load.at = "done"
  /\ load.retries < MaxRetries
  /\ \E url \in {"ok", "none"}, glb \in {"loads", "throws"} :
       load' = Continued(site, Started(site,
                 [Issue(load, <<"setStatus(loading)", "setErrorMsg", "setLoadProgress">>)
                    EXCEPT !.status = "loading", !.caller = "handleRetry",
                           !.modelLoaded = FALSE, !.inScene = FALSE,
                           !.url = url, !.glb = glb, !.retries = @ + 1]))
  /\ ar' = Follow(ar, load, load')
  /\ UNCHANGED <<sceneRef, notSessionVars>>

\* The cleanup of the mount effect: 679-686 and 506-512.  What the claims
\* compare with is noted: where loadModel was and what had been issued.
Unmount ==
  /\ load.mounted
  /\ load' = [load EXCEPT !.mounted = FALSE, !.animFrame = FALSE,
                          !.unmountedAt = load.at,
                          !.atUnmount = [issued |-> load.issued, frames |-> load.frames]]
  /\ ar' = Follow(ar, load, load')
  /\ UNCHANGED <<sceneRef, notSessionVars>>

----------------------------------------------------------------------------
(* Inputs.                                                                 *)

Sites == {"AR", "MV"}

AccessorIdle == accessorIndex = 0

GlbIdle ==
  /\ totalLength = 0
  /\ offset = 0
  /\ jsonChunk = Null
  /\ binaryChunk = Null
  /\ chunksRead = <<>>

SceneIdle ==
  /\ stack = <<>>
  /\ groups = <<>>
  /\ drawables = <<>>

LayoutIdle ==
  /\ layouts = <<>>
  /\ resolved = <<>>

ScreenIdle ==
  /\ model = Null
  /\ target = Null
  /\ before = Null
  /\ applied = Null
  /\ returned = Null
  /\ calls = 0
  /\ modelDimensions = Null
  /\ status = "loading"
  /\ statusMessage = "Loading model..."
  /\ surfaceDetected = FALSE
  /\ modelLoaded = FALSE

CallsIdle ==
  /\ running = 0
  /\ suspended = <<>>

NoRoute ==
  [pc |-> "off", name |-> FALSE, isAsync |-> FALSE, images |-> 0, object |-> NoObject,
   response |-> 0, generation |-> Null]

NoPoller == [pc |-> "off", method |-> "", polls |-> 0, object |-> NoObject]

NoRegenerate == [pc |-> "off", object |-> NoObject, response |-> 0]

BackendIdle ==
  /\ keys = [meshy |-> FALSE, tripo |-> FALSE]
  /\ stored = Null
  /\ route = NoRoute
  /\ poller = <<>>
  /\ requests = <<>>
  /\ task = <<>>
  /\ regen = NoRegenerate

CoreIdle ==
  /\ site = "AR"
  /\ pc = "done"
  /\ arrayBuffer = <<>>
  /\ gltfJson = Null
  /\ binaryData = Null
  /\ result = Pending
  /\ warnings = <<>>
  /\ accessorIndex = 0
  /\ totalLength = 0
  /\ offset = 0
  /\ jsonChunk = Null
  /\ binaryChunk = Null
  /\ chunksRead = <<>>
  /\ stack = <<>>
  /\ groups = <<>>
  /\ drawables = <<>>
  /\ layouts = <<>>
  /\ resolved = <<>>

NoWait ==
  [pc |-> "off", polls |-> 0, seen |-> <<>>, progress |-> <<>>, failures |-> <<>>,
   retries |-> <<>>, returned |-> Null, thrown |-> "", elapsed |-> FALSE]

ClientIdle ==
  /\ wait = NoWait
  /\ server = Null

NoSession ==
  [arState |-> "loading", rendered |-> "loading", statusMessage |-> "Loading model...",
   mounted |-> FALSE, modelLoaded |-> FALSE,
   modelPlaced |-> FALSE, placedModel |-> 0, shadowDisc |-> 0, nextId |-> 1,
   modelScale |-> Whole(1), modelRotation |-> [x |-> 0, y |-> 0], lastTouch |-> Null,
   lastPinchDist |-> Null, events |-> 0]

SessionIdle ==
  /\ ar = NoSession
  /\ sceneRef = {}
  /\ load = NoLoad

AppIdle == CallsIdle /\ BackendIdle /\ ClientIdle /\ SessionIdle

(* Payload bytes.  Every byte of a payload differs from its neighbours, so *)
(* a read at a wrong offset decodes a wrong number.  A 4-byte component    *)
(* is drawn over bytes below 128 only, so that its number stays below 2^31 *)
(* (the model checker's integers are 32-bit); 1- and 2-byte components are *)
(* drawn over bytes of the whole range, negative readings included.        *)
PatternByte(wide, k) == IF wide THEN (37 * k + 11) % 128 ELSE (37 * k + 150) % 256

PatternBuffer(wide, length) == [k \in 1..length |-> PatternByte(wide, k)]

\* Component types drawn: the six of COMPONENT_TYPES, and 5124 (INT), which
\* the table lacks.
ComponentTypeInputs == {5120, 5121, 5122, 5123, 5124, 5125, 5126}

\* Element shapes drawn: three of TYPE_SIZES, and one the table lacks.
TypeInputs == {"SCALAR", "VEC3", "VEC5"}

\* An optional numeric property: absent, or one of the values.
Optional(name, values) == {<<>>} \cup {[f \in {name} |-> v] : v \in values}

WithOptional(base, opt) == IF opt = <<>> THEN base ELSE base @@ opt

AccessorInputs ==
  {WithOptional([bufferView |-> 0, componentType |-> ct, type |-> ty, count |-> n], off) :
     ct \in ComponentTypeInputs, ty \in TypeInputs, n \in 0..MaxCount,
     off \in Optional("byteOffset", {2})}

BufferViewInputs ==
  {WithOptional(WithOptional([buffer |-> 0], off), stride) :
     off \in Optional("byteOffset", {4}),
     stride \in Optional("byteStride", {0, 4, 12, 24})}

\* Where the payload lies in the ArrayBuffer, and how many bytes follow it.
PayloadOffsets == {0, 3}
PayloadLengths == {8, 20, 48}
TrailingLengths == {0, 6}

IsWide(accessor) ==
  accessor.componentType \in {5125, 5126}

InitAccessor ==
  /\ site \in Sites
  /\ pc = "readAccessor"
  /\ \E accessor \in AccessorInputs, bufferView \in BufferViewInputs,
        at \in PayloadOffsets, length \in PayloadLengths, trailing \in TrailingLengths :
       /\ gltfJson = [accessors |-> <<accessor>>, bufferViews |-> <<bufferView>>]
       /\ arrayBuffer = PatternBuffer(IsWide(accessor), at + length + trailing)
       /\ binaryData = Uint8View(at, length)
  /\ accessorIndex = 0
  /\ result = NoResult
  /\ warnings = <<>>
  /\ GlbIdle
  /\ SceneIdle
  /\ LayoutIdle
  /\ ScreenIdle
  /\ AppIdle

NextAccessor == CallReadAccessorAR \/ CallReadAccessorMV

SpecAccessor == InitAccessor /\ [][NextAccessor]_vars

(* Containers: a 12-byte header and up to MaxChunks chunks, each encoded   *)
(* with its true length, in a buffer that may have lost bytes at its end   *)
(* and whose header may declare another total length than the bytes that   *)
(* follow.                                                                 *)
U32Bytes(n) ==
  <<n % 256, (n \div 256) % 256, (n \div 65536) % 256, (n \div 16777216) % 256>>

\* Chunk types that are neither the document's nor the binary's.
OtherChunkTypes == {7}

ChunkInputs ==
  {[type |-> CHUNK_TYPE_JSON, data |-> d] : d \in {<<123, 125>>, <<49>>, <<48>>, <<123>>}}
  \cup {[type |-> CHUNK_TYPE_BIN, data |-> d] : d \in {<<7>>, <<8, 9>>}}
  \cup {[type |-> t, data |-> d] : t \in OtherChunkTypes, d \in {<<>>, <<5>>}}

ChunkLists == UNION {[1..n -> ChunkInputs] : n \in 0..MaxChunks}

EncodeChunk(chunk) == U32Bytes(Len(chunk.data)) \o U32Bytes(chunk.type) \o chunk.data

RECURSIVE EncodeChunks(_)
EncodeChunks(chunks) ==
  IF chunks = <<>> THEN <<>> ELSE EncodeChunk(Head(chunks)) \o EncodeChunks(Tail(chunks))

\* 'glTF', and 'glTG'.
MagicInputs == {GLB_MAGIC, GLB_MAGIC + 16777216}
VersionInputs == {1, 2, 3}

\* The declared total length, relative to the bytes encoded.
TotalDeltas == {0 - 9, 0 - 1, 0, 4}

\* The bytes lost at the end of the buffer.
CutInputs == {0, 1, 2, 9}

Container(magic, version, total, chunks) ==
  U32Bytes(magic) \o U32Bytes(version) \o U32Bytes(total) \o EncodeChunks(chunks)

InitGLB ==
  /\ site \in Sites
  /\ pc = "parseGLB"
  /\ \E magic \in MagicInputs, version \in VersionInputs, chunks \in ChunkLists,
        delta \in TotalDeltas, cut \in CutInputs :
       LET full == 12 + Len(EncodeChunks(chunks))
           total == IF full + delta < 0 THEN 0 ELSE full + delta
           bytes == Container(magic, version, total, chunks)
       IN /\ (magic # GLB_MAGIC \/ version # 2) => (Len(chunks) <= 1 /\ delta = 0)
          /\ arrayBuffer = SubSeq(bytes, 1, IF cut > Len(bytes) THEN 0 ELSE Len(bytes) - cut)
  /\ gltfJson = Null
  /\ binaryData = Null
  /\ result = Pending
  /\ warnings = <<>>
  /\ AccessorIdle
  /\ GlbIdle
  /\ SceneIdle
  /\ LayoutIdle
  /\ ScreenIdle
  /\ AppIdle

NextGLB == ParseHeader \/ ReadChunk \/ ParseReturn

SpecGLB == InitGLB /\ [][NextGLB]_vars

\* parseGLB is one synchronous call: the engine runs it to its end.
FairSpecGLB == SpecGLB /\ WF_vars(NextGLB)

(* Documents for scene composition: what parseGLB returned.  The payload   *)
(* holds MaxCount vertices of 12 bytes; every accessor reads it through    *)
(* the one buffer view.  Accessors 2 and 4 have a component type and an    *)
(* element shape that readAccessor's tables lack.                          *)
SceneAccessors ==
  <<[bufferView |-> 0, componentType |-> 5126, type |-> "VEC3", count |-> MaxCount],
    [bufferView |-> 0, componentType |-> 5126, type |-> "VEC3", count |-> MaxCount],
    [bufferView |-> 0, componentType |-> 5124, type |-> "VEC3", count |-> MaxCount],
    [bufferView |-> 0, componentType |-> 5123, type |-> "SCALAR", count |-> MaxCount],
    [bufferView |-> 0, componentType |-> 5126, type |-> "VEC5", count |-> MaxCount],
    [bufferView |-> 0, componentType |-> 5126, type |-> "VEC2", count |-> MaxCount],
    [bufferView |-> 0, componentType |-> 5121, type |-> "VEC4", count |-> MaxCount]>>

SceneBufferViews == <<[buffer |-> 0, byteOffset |-> 0, byteLength |-> 12 * MaxCount]>>

SceneMaterials == <<[pbrMetallicRoughness |-> [baseColorFactor |-> <<100, 50, 0, 100>>]]>>

P_pos == [attributes |-> [POSITION |-> 0]]
P_full ==
  [attributes |-> [POSITION |-> 0, NORMAL |-> 1, TEXCOORD_0 |-> 5, COLOR_0 |-> 6],
   indices |-> 3, material |-> 0]
P_nopos == [attributes |-> [NORMAL |-> 1]]
P_badnormal == [attributes |-> [POSITION |-> 0, NORMAL |-> 2]]
P_badshape == [attributes |-> [POSITION |-> 0, TEXCOORD_0 |-> 4]]
P_badpos == [attributes |-> [POSITION |-> 2]]

PrimitiveLists ==
  {<<p>> : p \in {P_pos, P_full, P_nopos, P_badnormal, P_badshape, P_badpos}}
  \cup {<<p, P_pos>> : p \in {P_nopos, P_badnormal, P_badpos}}
  \cup {<<P_pos, P_full>>}

MeshOf(primitives) == [primitives |-> primitives]

\* Every list of one or two meshes, for a document with no hierarchy.
MeshLists ==
  {<<MeshOf(ps)>> : ps \in PrimitiveLists}
  \cup {<<MeshOf(<<P_pos>>), MeshOf(ps)>> : ps \in PrimitiveLists}

\* The lists of meshes drawn together with a hierarchy.
HierarchyMeshLists ==
  {<<MeshOf(<<P_pos>>)>>, <<MeshOf(<<P_badnormal>>)>>,
   <<MeshOf(<<P_pos>>), MeshOf(<<P_badpos, P_pos>>)>>,
   <<MeshOf(<<P_nopos, P_pos>>), MeshOf(<<P_full>>)>>}

\* A node: an optional mesh (0, or 1, which may be missing from meshes[])
\* and optional children, itself and later or earlier nodes included.
NodeInputs ==
  {WithOptional(WithOptional([name |-> "n"], mesh), children) :
     mesh \in Optional("mesh", {0, 1}),
     children \in Optional("children", {<<c>> : c \in 0..(MaxNodes - 1)} \cup {<<0, 1>>})}

NodeLists == UNION {[1..n -> NodeInputs] : n \in 1..MaxNodes}

\* The selected scene's roots; node MaxNodes is never declared.
RootInputs == {<<>>, <<0>>, <<0, 1>>, <<MaxNodes>>}

SceneDocument(meshes, hierarchy) ==
  [accessors |-> SceneAccessors, bufferViews |-> SceneBufferViews,
   materials |-> SceneMaterials] @@ meshes @@ hierarchy

HierarchyInputs ==
  {WithOptional([nodes |-> nodes, scenes |-> <<[nodes |-> roots]>>], scene) :
     nodes \in NodeLists, roots \in RootInputs, scene \in Optional("scene", {0, 1})}

\* Documents with two scenes over two nodes without children, and a default
\* scene index of 0, 1 or none.
TwoSceneInputs ==
  {WithOptional([nodes |-> <<WithOptional([name |-> "n"], mesh0),
                             WithOptional([name |-> "n"], mesh1)>>,
                 scenes |-> <<[nodes |-> roots0], [nodes |-> roots1]>>], scene) :
     mesh0 \in Optional("mesh", {0, 1}), mesh1 \in Optional("mesh", {0, 1}),
     roots0 \in {<<0>>, <<1>>, <<0, 1>>}, roots1 \in {<<0>>, <<1>>, <<1, 0>>},
     scene \in Optional("scene", {0, 1})}

\* The transform fields of a node: none, a matrix (a translation by
\* (1, 2, 3), column-major), a matrix beside translation and scale, a
\* translation alone, a rotation (half a turn about Y) and a scale.
TransformInputs ==
  {<<>>,
   [matrix |-> <<1, 0, 0, 0, 0, 1, 0, 0, 0, 0, 1, 0, 1, 2, 3, 1>>],
   [matrix |-> <<1, 0, 0, 0, 0, 1, 0, 0, 0, 0, 1, 0, 1, 2, 3, 1>>,
    translation |-> <<4, 5, 6>>, scale |-> <<2, 2, 2>>],
   [translation |-> <<4, 5, 6>>],
   [rotation |-> <<0, 1, 0, 0>>, scale |-> <<2, 3, 4>>]}

\* Two nodes with transforms: the first has the second as its child, once
\* or twice; the roots are the first, or the second and then the first.
TransformedInputs ==
  {[nodes |-> <<WithOptional(WithOptional([name |-> "n", children |-> children], mesh0),
                             transform0),
                WithOptional(WithOptional([name |-> "n"], mesh1), transform1)>>,
    scenes |-> <<[nodes |-> roots]>>] :
     children \in {<<1>>, <<1, 1>>}, roots \in {<<0>>, <<1, 0>>},
     mesh0 \in Optional("mesh", {0, 1}), mesh1 \in Optional("mesh", {0, 1}),
     transform0 \in TransformInputs, transform1 \in TransformInputs}

\* The meshes drawn together with the nodes with transforms.
TransformedMeshes == <<MeshOf(<<P_nopos, P_pos>>), MeshOf(<<P_full, P_pos>>)>>

\* Where the payload lies in the ArrayBuffer during composition: after a
\* header and a document chunk of which only the length matters here.
ScenePayloadOffsets == {4}

InitScene ==
  /\ site \in Sites
  /\ pc = "buildScene"
  /\ \E at \in ScenePayloadOffsets :
       /\ arrayBuffer = PatternBuffer(TRUE, at + 12 * MaxCount)
       /\ \/ /\ \E meshes \in Optional("meshes", {<<>>} \cup MeshLists) :
                  gltfJson = SceneDocument(meshes, <<>>)
             /\ binaryData \in {Null, Uint8View(at, 12 * MaxCount)}
          \/ /\ \E meshes \in HierarchyMeshLists,
                   hierarchy \in HierarchyInputs \cup TwoSceneInputs :
                  /\ ("scene" \in DOMAIN hierarchy /\ Len(hierarchy.scenes) = 1)
                       => Len(hierarchy.nodes) = 1
                  /\ gltfJson = SceneDocument([meshes |-> meshes], hierarchy)
             /\ binaryData = Uint8View(at, 12 * MaxCount)
          \/ /\ \E hierarchy \in TransformedInputs :
                  gltfJson = SceneDocument([meshes |-> TransformedMeshes], hierarchy)
             /\ binaryData = Uint8View(at, 12 * MaxCount)
  /\ result = Pending
  /\ warnings = <<>>
  /\ AccessorIdle
  /\ GlbIdle
  /\ SceneIdle
  /\ LayoutIdle
  /\ ScreenIdle
  /\ AppIdle

NextScene == BuildScene \/ BuildFromMeshes \/ EnterNode \/ ReturnNode \/ ReturnScene

SpecScene == InitScene /\ [][NextScene]_vars

(* Calls of two callers.  A call parses a container or composes a         *)
(* document; the third call repeats the first call's arguments after the   *)
(* other two have returned.                                                *)
ParseInputs ==
  {[pc |-> "parseGLB", arrayBuffer |-> bytes, gltfJson |-> Null, binaryData |-> Null] :
     bytes \in
       {Container(GLB_MAGIC, 2, 12 + Len(EncodeChunks(chunks)), chunks) :
          chunks \in {<<[type |-> CHUNK_TYPE_JSON, data |-> <<123, 125>>],
                        [type |-> CHUNK_TYPE_BIN, data |-> <<8, 9>>]>>,
                      <<[type |-> 7, data |-> <<5>>],
                        [type |-> CHUNK_TYPE_BIN, data |-> <<7>>],
                        [type |-> CHUNK_TYPE_JSON, data |-> <<49>>]>>,
                      <<[type |-> CHUNK_TYPE_BIN, data |-> <<8, 9>>]>>}}
       \cup {SubSeq(Container(GLB_MAGIC, 2, 30,
                              <<[type |-> CHUNK_TYPE_JSON, data |-> <<123, 125>>]>>), 1, 21)}}

ComposeInputs ==
  {[pc |-> "buildScene", arrayBuffer |-> PatternBuffer(TRUE, 4 + 12 * MaxCount),
    gltfJson |-> [accessors |-> SceneAccessors, bufferViews |-> SceneBufferViews,
                  materials |-> SceneMaterials, meshes |-> meshes] @@ hierarchy,
    binaryData |-> Uint8View(4, 12 * MaxCount)] :
     meshes \in {<<MeshOf(<<P_pos, P_full>>)>>, <<MeshOf(<<P_nopos, P_pos>>)>>},
     hierarchy \in {<<>>,
                    [nodes |-> <<[name |-> "n", mesh |-> 0, children |-> <<1>>],
                                 [name |-> "n", mesh |-> 0]>>,
                     scenes |-> <<[nodes |-> <<0>>]>>]}}

CallInputs ==
  {[site |-> s] @@ input : s \in Sites, input \in ParseInputs \cup ComposeInputs}

\* The activation of a call that has not started.
Start(input) ==
  [site |-> input.site, pc |-> input.pc, arrayBuffer |-> input.arrayBuffer,
   gltfJson |-> input.gltfJson, binaryData |-> input.binaryData, result |-> Pending,
   warnings |-> <<>>, totalLength |-> 0, offset |-> 0, jsonChunk |-> Null,
   binaryChunk |-> Null, chunksRead |-> <<>>, stack |-> <<>>, groups |-> <<>>,
   drawables |-> <<>>]

Call(input, alone) ==
  [input |-> input, alone |-> alone, preempted |-> FALSE, state |-> Start(input)]

InitCalls ==
  /\ \E first \in CallInputs, second \in CallInputs :
       /\ suspended = <<Call(first, FALSE), Call(second, FALSE), Call(first, TRUE)>>
       /\ site = first.site
       /\ pc = first.pc
       /\ arrayBuffer = first.arrayBuffer
       /\ gltfJson = first.gltfJson
       /\ binaryData = first.binaryData
  /\ running = 1
  /\ result = Pending
  /\ warnings = <<>>
  /\ AccessorIdle
  /\ GlbIdle
  /\ SceneIdle
  /\ LayoutIdle
  /\ ScreenIdle
  /\ BackendIdle
  /\ ClientIdle
  /\ SessionIdle

NextCalls ==
  \/ ParseHeader
  \/ ReadChunk
  \/ ParseReturn
  \/ BuildScene
  \/ BuildFromMeshes
  \/ EnterNode
  \/ ReturnNode
  \/ ReturnScene
  \/ SwitchCall

SpecCalls == InitCalls /\ [][NextCalls]_vars

(* One vertex set in two layouts.  The vertex set is MaxCount or fewer     *)
(* vertices of a position and a normal, three floats each; vertexData      *)
(* holds them vertex by vertex, 24 bytes a vertex.  The tight layout puts  *)
(* all positions and then all normals, each region under a buffer view of  *)
(* its own with stride 0 (absent) or the element size; the interleaved     *)
(* layout is vertexData itself under one buffer view with byteStride 24.   *)
VertexBytes(vertexData, i, attribute) ==
  SubSeq(vertexData, 24 * i + 12 * attribute + 1, 24 * i + 12 * attribute + 12)

RECURSIVE Region(_, _, _)
Region(vertexData, count, attribute) ==
  IF count = 0 THEN <<>>
  ELSE Region(vertexData, count - 1, attribute) \o VertexBytes(vertexData, count - 1, attribute)

Padding(length) == [k \in 1..length |-> 0]

ResolveInput(gltf, buffer, bin) == [gltf |-> gltf, buffer |-> buffer, bin |-> bin]

TightLayout(vertexData, count, at, stride) ==
  ResolveInput(
    [accessors |->
       <<[bufferView |-> 0, componentType |-> 5126, type |-> "VEC3", count |-> count],
         [bufferView |-> 1, componentType |-> 5126, type |-> "VEC3", count |-> count]>>,
     bufferViews |->
       <<WithOptional([buffer |-> 0, byteOffset |-> 0, byteLength |-> 12 * count], stride),
         WithOptional([buffer |-> 0, byteOffset |-> 12 * count, byteLength |-> 12 * count],
                      stride)>>],
    Padding(at) \o Region(vertexData, count, 0) \o Region(vertexData, count, 1),
    Uint8View(at, 24 * count))

InterleavedLayout(vertexData, count, at) ==
  ResolveInput(
    [accessors |->
       <<[bufferView |-> 0, componentType |-> 5126, type |-> "VEC3", count |-> count],
         [bufferView |-> 0, componentType |-> 5126, type |-> "VEC3", count |-> count,
          byteOffset |-> 12]>>,
     bufferViews |->
       <<[buffer |-> 0, byteOffset |-> 0, byteLength |-> 24 * count, byteStride |-> 24]>>],
    Padding(at) \o SubSeq(vertexData, 1, 24 * count),
    Uint8View(at, 24 * count))

\* Where the payload starts in the container's bytes: after the header and
\* a document chunk whose length the parser does not require to be padded.
LayoutPayloadOffsets == {0, 4, 6, 8}

\* readAccessor for the position (accessor 0) and the normal (accessor 1).
ResolveBoth(s, input) ==
  [position |-> readAccessor(s, input.gltf, input.buffer, input.bin, 0),
   normal |-> readAccessor(s, input.gltf, input.buffer, input.bin, 1)]

ResolveTight ==
  /\ pc = "resolve"
  /\ "tight" \notin DOMAIN resolved
  /\ resolved' = resolved @@ [l \in {"tight"} |-> ResolveBoth(site, layouts.tight)]
  /\ UNCHANGED <<sharedVars, accessorVars, appVars, glbVars, sceneVars, layouts, screenVars>>

ResolveInterleaved ==
  /\ pc = "resolve"
  /\ "interleaved" \notin DOMAIN resolved
  /\ resolved' = resolved @@ [l \in {"interleaved"} |-> ResolveBoth(site, layouts.interleaved)]
  /\ UNCHANGED <<sharedVars, accessorVars, appVars, glbVars, sceneVars, layouts, screenVars>>

InitLayout ==
  /\ site \in Sites
  /\ pc = "resolve"
  /\ \E count \in 1..MaxCount, at \in LayoutPayloadOffsets,
        stride \in Optional("byteStride", {0, 12}), seed \in {0, 1} :
       LET vertexData == [k \in 1..(24 * count) |-> PatternByte(TRUE, k + seed)]
       IN layouts = [tight |-> TightLayout(vertexData, count, at, stride),
                     interleaved |-> InterleavedLayout(vertexData, count, at)]
  /\ resolved = <<>>
  /\ arrayBuffer = <<>>
  /\ gltfJson = Null
  /\ binaryData = Null
  /\ result = Pending
  /\ warnings = <<>>
  /\ AccessorIdle
  /\ GlbIdle
  /\ SceneIdle
  /\ ScreenIdle
  /\ AppIdle

NextLayout == ResolveTight \/ ResolveInterleaved

SpecLayout == InitLayout /\ [][NextLayout]_vars

(* Indexed primitives.  The payload holds MaxCount positions of 12 bytes   *)
(* and then the index region; accessor 0 is the index accessor (the three  *)
(* component types glTF allows for indices, and signed 16-bit, which it    *)
(* does not), accessor 1 the positions.  An index of 1 or 2 bytes is drawn *)
(* over all byte values, one of 4 bytes over bytes below 128.              *)
IndexAccessorInputs ==
  {WithOptional([bufferView |-> 0, componentType |-> ct, type |-> "SCALAR", count |-> n],
                off) :
     ct \in {5121, 5122, 5123, 5125}, n \in 0..MaxCount,
     off \in Optional("byteOffset", {2})}

IndexBufferViewInputs ==
  {WithOptional([buffer |-> 0, byteOffset |-> 12 * MaxCount + at], stride) :
     at \in {0, 4}, stride \in Optional("byteStride", {0, 4})}

IndexRegionLengths == {20}

InitIndex ==
  /\ site \in Sites
  /\ pc = "buildPrimitive"
  /\ \E accessor \in IndexAccessorInputs, bufferView \in IndexBufferViewInputs,
        at \in PayloadOffsets, length \in IndexRegionLengths :
       /\ gltfJson =
            [accessors |-> <<accessor, [bufferView |-> 1, componentType |-> 5126,
                                        type |-> "VEC3", count |-> MaxCount]>>,
             bufferViews |-> <<bufferView, [buffer |-> 0, byteOffset |-> 0,
                                           byteLength |-> 12 * MaxCount]>>,
             meshes |-> <<MeshOf(<<[attributes |-> [POSITION |-> 1], indices |-> 0]>>)>>]
       /\ arrayBuffer = PatternBuffer(TRUE, at + 12 * MaxCount)
                          \o PatternBuffer(IsWide(accessor), length)
       /\ binaryData = Uint8View(at, 12 * MaxCount + length)
  /\ accessorIndex = 0
  /\ result = PrimitiveSkipped(<<>>)
  /\ warnings = <<>>
  /\ GlbIdle
  /\ SceneIdle
  /\ LayoutIdle
  /\ ScreenIdle
  /\ AppIdle

NextIndex == CallBuildPrimitive

SpecIndex == InitIndex /\ [][NextIndex]_vars

(* Primitives with and without each attribute.  Accessor 0 holds the       *)
(* positions, 1 the normals, 2 the texture coordinates, 3 the colours and  *)
(* 4 three indices; the counts of the positions and of the normals are     *)
(* drawn apart, as the document declares them apart.  Every accessor lies  *)
(* inside the payload.                                                     *)
AttributeInputs ==
  {WithOptional(WithOptional(WithOptional(position, normal), uv), color) :
     position \in Optional("POSITION", {0}), normal \in Optional("NORMAL", {1}),
     uv \in Optional("TEXCOORD_0", {2}), color \in Optional("COLOR_0", {3})}

PrimitiveInputs ==
  {WithOptional([attributes |-> attributes], indices) :
     attributes \in AttributeInputs, indices \in Optional("indices", {4})}

InitPrimitive ==
  /\ site \in Sites
  /\ pc = "buildPrimitive"
  /\ \E primitive \in PrimitiveInputs, positions \in 1..MaxCount, normals \in 1..MaxCount :
       gltfJson =
         [accessors |->
            <<[bufferView |-> 0, componentType |-> 5126, type |-> "VEC3", count |-> positions],
              [bufferView |-> 0, componentType |-> 5126, type |-> "VEC3", count |-> normals],
              [bufferView |-> 0, componentType |-> 5126, type |-> "VEC2", count |-> positions],
              [bufferView |-> 0, componentType |-> 5121, type |-> "VEC4", count |-> positions],
              [bufferView |-> 0, componentType |-> 5123, type |-> "SCALAR", count |-> 3]>>,
          bufferViews |-> <<[buffer |-> 0, byteOffset |-> 0, byteLength |-> 12 * MaxCount]>>,
          meshes |-> <<MeshOf(<<primitive>>)>>]
  /\ arrayBuffer = PatternBuffer(TRUE, 12 * MaxCount)
  /\ binaryData = Uint8View(0, 12 * MaxCount)
  /\ accessorIndex = 0
  /\ result = PrimitiveSkipped(<<>>)
  /\ warnings = <<>>
  /\ GlbIdle
  /\ SceneIdle
  /\ LayoutIdle
  /\ ScreenIdle
  /\ AppIdle

NextPrimitive == CallBuildPrimitive

SpecPrimitive == InitPrimitive /\ [][NextPrimitive]_vars

(* Materials: a base colour factor with an alpha of 1.0 or 0.5 or none, an *)
(* alpha mode or none, an alpha cutoff or none, a double-sided flag or     *)
(* none; a primitive that names material 0, material 1 (never declared) or *)
(* none, with or without vertex colours; a document with or without        *)
(* materials[].                                                            *)
PbrInputs ==
  {<<>>}
  \cup {[pbrMetallicRoughness |-> WithOptional([metallicFactor |-> 20], factor)] :
          factor \in Optional("baseColorFactor", {<<100, 50, 0, 100>>, <<100, 50, 0, 50>>,
                                                  <<100, 50, 0>>})}

MaterialInputs ==
  {WithOptional(WithOptional(WithOptional(WithOptional([name |-> "m"], pbr), mode), cutoff),
                sided) :
     pbr \in PbrInputs,
     mode \in Optional("alphaMode", {"OPAQUE", "BLEND", "MASK"}),
     cutoff \in Optional("alphaCutoff", {30}),
     sided \in Optional("doubleSided", {TRUE, FALSE})}

MaterialPrimitives ==
  {WithOptional([attributes |-> attributes], material) :
     attributes \in {[POSITION |-> 0], [POSITION |-> 0, COLOR_0 |-> 6]},
     material \in Optional("material", {0, 1})}

InitMaterial ==
  /\ site \in Sites
  /\ pc = "buildMaterial"
  /\ \E primitive \in MaterialPrimitives,
        materials \in Optional("materials", {<<m>> : m \in MaterialInputs}) :
       gltfJson = WithOptional([meshes |-> <<MeshOf(<<primitive>>)>>], materials)
  /\ arrayBuffer = <<>>
  /\ binaryData = Null
  /\ result = Pending
  /\ warnings = <<>>
  /\ AccessorIdle
  /\ GlbIdle
  /\ SceneIdle
  /\ LayoutIdle
  /\ ScreenIdle
  /\ AppIdle

NextMaterial == CallBuildMaterialAR \/ CallBuildMaterialMV

SpecMaterial == InitMaterial /\ [][NextMaterial]_vars

(* Groups as buildSceneFromGLTF returns them: position (0, 0, 0), scale    *)
(* (1, 1, 1), and no, one or two direct children.  A child's geometry is a *)
(* single point, flat along Y, a solid, a sliver whose width is half a     *)
(* thousandth (on a rounding step of the dimension report), or absent.     *)
Ints(x, y, z) == <<Whole(x), Whole(y), Whole(z)>>

GeometryInputs ==
  {[meshes |-> 0, box |-> EmptyBox],
   [meshes |-> 1, box |-> BoxOf(Ints(1, 1, 1), Ints(1, 1, 1))],
   [meshes |-> 1, box |-> BoxOf(Ints(0, 1, 0), Ints(2, 1, 4))],
   [meshes |-> 2, box |-> BoxOf(Ints(-1, 0, 2), Ints(1, 3, 4))],
   [meshes |-> 1, box |-> BoxOf(Ints(0, 0, 0), <<Num(1, 2000), Whole(1), Whole(1)>>)]}

ChildInputs ==
  {[position |-> position, scale |-> scale, meshes |-> geometry.meshes,
    box |-> geometry.box] :
     position \in {Ints(0, 0, 0), Ints(1, 2, -1)},
     scale \in {Ints(1, 1, 1), Ints(2, 2, 2)},
     geometry \in GeometryInputs}

\* new THREE.Group() with the children added.
GroupOf(children) ==
  [position |-> Ints(0, 0, 0), scale |-> Ints(1, 1, 1), children |-> children]

GroupInputs ==
  {GroupOf(<<>>)}
  \cup {GroupOf(<<c>>) : c \in ChildInputs}
  \cup {GroupOf(<<c, d>>) : c, d \in ChildInputs}

\* Target sizes: those the two screens pass (1.5 and 2.0).
TargetInputs == {Num(3, 2), Whole(2)}

InitNormalize ==
  /\ site \in Sites
  /\ pc = "normalizeModel"
  /\ model \in GroupInputs
  /\ target \in TargetInputs
  /\ before = Null
  /\ applied = Null
  /\ returned = Null
  /\ calls = 0
  /\ modelDimensions = Null
  /\ status = "loading"
  /\ statusMessage = "Loading model..."
  /\ surfaceDetected = FALSE
  /\ modelLoaded = FALSE
  /\ arrayBuffer = <<>>
  /\ gltfJson = Null
  /\ binaryData = Null
  /\ result = Pending
  /\ warnings = <<>>
  /\ AccessorIdle
  /\ GlbIdle
  /\ SceneIdle
  /\ LayoutIdle
  /\ AppIdle

NextNormalize == CallNormalizeModelAR \/ CallNormalizeModelMV

SpecNormalize == InitNormalize /\ [][NextNormalize]_vars

(* loadModel as buildSceneFromGLTF ends: it returned a Group, or it threw  *)
(* for a document without meshes.  A surface may have been detected while  *)
(* the AR screen was downloading.                                          *)
InitLoad ==
  /\ site \in Sites
  /\ \/ /\ model \in GroupInputs
        /\ result = Pending
        /\ pc = (IF site = "AR" THEN "countMeshes" ELSE "measure")
     \/ /\ model = Null
        /\ result = [status |-> "throw", error |-> "GLB contains no meshes"]
        /\ pc = "catch"
  /\ surfaceDetected \in (IF site = "AR" THEN BOOLEAN ELSE {FALSE})
  /\ status = "loading"
  /\ statusMessage = (IF site = "AR" THEN "Detecting surfaces..." ELSE "")
  /\ target = Null
  /\ before = Null
  /\ applied = Null
  /\ returned = Null
  /\ calls = 0
  /\ modelDimensions = Null
  /\ modelLoaded = FALSE
  /\ arrayBuffer = <<>>
  /\ gltfJson = Null
  /\ binaryData = Null
  /\ warnings = <<>>
  /\ AccessorIdle
  /\ GlbIdle
  /\ SceneIdle
  /\ LayoutIdle
  /\ AppIdle

NextLoad ==
  \/ CountMeshes
  \/ SetModelDimensions
  \/ LoadNormalizeAR
  \/ LoadNormalizeMV
  \/ FinishAR
  \/ FinishMV
  \/ CatchAR
  \/ CatchMV

SpecLoad == InitLoad /\ [][NextLoad]_vars

(* The backend: one POST /api/objects with or without a name, in the      *)
(* background mode or not, with no image or one, under each configuration *)
(* of the two keys, and MaxRequests requests for the object's status made *)
(* at any time.                                                            *)
KeyInputs == [meshy : BOOLEAN, tripo : BOOLEAN]

\* The progress values a provider reports for a task in progress: in any
\* order, and one beyond 100.
ProgressReports == {0, 20, 50, 120}

InitGeneration ==
  /\ keys \in KeyInputs
  /\ stored = Null
  /\ \E name \in BOOLEAN, isAsync \in BOOLEAN, images \in {0, 1} :
       route = [NoRoute EXCEPT !.pc = "received", !.name = name, !.isAsync = isAsync,
                               !.images = images]
  /\ poller = <<NoPoller>>
  /\ requests = [i \in 1..MaxRequests |-> [pc |-> "idle", object |-> NoObject,
                                           response |-> Null]]
  /\ task = <<[NoTask EXCEPT !.reports = ProgressReports]>>
  /\ regen = NoRegenerate
  /\ CoreIdle
  /\ ScreenIdle
  /\ CallsIdle
  /\ ClientIdle
  /\ SessionIdle

NextGeneration ==
  \/ PostCreate
  \/ PostProcessing
  \/ PostStart
  \/ PostGenerate
  \/ TaskAdvance
  \/ PollerWake
  \/ PollerExpire
  \/ PollerFind
  \/ PollerCheck
  \/ PollerSave
  \/ PollerExpired
  \/ StatusRequest

SpecGeneration == InitGeneration /\ [][NextGeneration]_vars

(* An object made in the background mode and one request to regenerate it, *)
(* which may arrive at any time.  The provider reports no progress, only   *)
(* the end of a task.                                                      *)
InitRegenerate ==
  /\ keys = [meshy |-> TRUE, tripo |-> FALSE]
  /\ stored = Null
  /\ \E images \in {0, 1} :
       route = [NoRoute EXCEPT !.pc = "received", !.name = TRUE, !.isAsync = TRUE,
                               !.images = images]
  /\ poller = <<NoPoller, NoPoller>>
  /\ requests = <<>>
  /\ task = <<NoTask, NoTask>>
  /\ regen = [NoRegenerate EXCEPT !.pc = "received"]
  /\ CoreIdle
  /\ ScreenIdle
  /\ CallsIdle
  /\ ClientIdle
  /\ SessionIdle

NextRegenerate ==
  \/ PostCreate
  \/ PostProcessing
  \/ PostStart
  \/ RegenerateFind
  \/ RegenerateSave
  \/ RegenerateStart
  \/ TaskAdvance
  \/ PollerWake
  \/ PollerExpire
  \/ PollerFind
  \/ PollerCheck
  \/ PollerSave
  \/ PollerExpired

SpecRegenerate == InitRegenerate /\ [][NextRegenerate]_vars

(* A handler goes on when the promise it awaits settles, and the poller's  *)
(* timer fires: every step of the create route and of the poller that can  *)
(* be taken is taken in the end.  Nothing is assumed of the provider or of *)
(* the clients that ask for the status.                                    *)
FairSpecGeneration ==
  /\ SpecGeneration
  /\ WF_vars(PostCreate)
  /\ WF_vars(PostProcessing)
  /\ WF_vars(PostStart)
  /\ WF_vars(PostGenerate)
  /\ WF_vars(PollerWake \/ PollerExpire)
  /\ WF_vars(PollerFind)
  /\ WF_vars(PollerCheck)
  /\ WF_vars(PollerSave)
  /\ WF_vars(PollerExpired)

(* waitForGeneration called for an object that is processing, with no     *)
(* progress yet or some.                                                   *)
InitWait ==
  /\ wait = [NoWait EXCEPT !.pc = "loop"]
  /\ \E progress \in {0, 5} :
       server = [generationStatus |-> "processing", generationProgress |-> progress,
                 generationError |-> "", modelUrl |-> ""]
  /\ CoreIdle
  /\ ScreenIdle
  /\ CallsIdle
  /\ BackendIdle
  /\ SessionIdle

NextWait == WaitPoll \/ WaitTimeout \/ ServerAdvance

SpecWait == InitWait /\ [][NextWait]_vars

(* An AR session from the state ready: the model is loaded, a surface was  *)
(* found, the reticle is shown and nothing is placed.                      *)
InitSession ==
  /\ ar = [NoSession EXCEPT !.arState = "ready", !.rendered = "ready", !.mounted = TRUE,
                            !.modelLoaded = TRUE, !.statusMessage = "Tap to place model"]
  /\ sceneRef = {}
  /\ load = NoLoad
  /\ CoreIdle
  /\ ScreenIdle
  /\ CallsIdle
  /\ BackendIdle
  /\ ClientIdle

NextSession == TapToPlace \/ Reset \/ Render \/ Gesture \/ Release

SpecSession == InitSession /\ [][NextSession]_vars

(* A screen is mounted and its GLView has not yet made its context.        *)
InitMount ==
  /\ site \in {"AR", "MV"}
  /\ \E url \in {"ok", "none"}, glb \in {"loads", "throws"} :
       load = [NoLoad EXCEPT !.at = "created", !.mounted = TRUE, !.url = url, !.glb = glb]
  /\ ar = NoSession
  /\ sceneRef = {}
  /\ pc = "done"
  /\ arrayBuffer = <<>>
  /\ gltfJson = Null
  /\ binaryData = Null
  /\ result = Pending
  /\ warnings = <<>>
  /\ AccessorIdle
  /\ GlbIdle
  /\ SceneIdle
  /\ LayoutIdle
  /\ ScreenIdle
  /\ CallsIdle
  /\ BackendIdle
  /\ ClientIdle

NextMount ==
  \/ ContextCreate
  \/ DownloadSettles
  \/ ReadSettles
  \/ TimerFires
  \/ AnimationFrame
  \/ Retry
  \/ Unmount

SpecMount == InitMount /\ [][NextMount]_vars

(* One session of the AR screen from its mount: the load, the timer, the   *)
(* render loop, React's renders and the user's touches.  The screen stays  *)
(* mounted.                                                                *)
InitScreen ==
  /\ InitMount
  /\ site = "AR"

NextScreen ==
  \/ ContextCreate
  \/ DownloadSettles
  \/ ReadSettles
  \/ TimerFires
  \/ AnimationFrame
  \/ Render
  \/ TapToPlace
  \/ TouchUntaken
  \/ Reset

SpecScreen == InitScreen /\ [][NextScreen]_vars

----------------------------------------------------------------------------
(* Claims about readAccessor, checked under SpecAccessor.                  *)

TheAccessor == gltfJson.accessors[accessorIndex + 1]
TheBufferView == gltfJson.bufferViews[TheAccessor.bufferView + 1]

Supported ==
  /\ TheAccessor.componentType \in DOMAIN COMPONENT_TYPES
  /\ TheAccessor.type \in DOMAIN TYPE_SIZES

Width == COMPONENT_TYPES[TheAccessor.componentType].size
Components == TYPE_SIZES[TheAccessor.type]
NaturalSize == Width * Components

DeclaredStride ==
  IF "byteStride" \in DOMAIN TheBufferView /\ TheBufferView.byteStride # 0
    THEN TheBufferView.byteStride ELSE NaturalSize

OnTightPath == DeclaredStride = NaturalSize

\* Byte offset, in the payload, of component j of element i.
ComponentAt(i, j) ==
  (IF "byteOffset" \in DOMAIN TheBufferView THEN TheBufferView.byteOffset ELSE 0)
  + (IF "byteOffset" \in DOMAIN TheAccessor THEN TheAccessor.byteOffset ELSE 0)
  + i * DeclaredStride + j * Width

ComponentInside(i, j) == ComponentAt(i, j) + Width <= binaryData.byteLength

\* The little-endian value of the component's type at a payload offset.
ValueAt(at) ==
  LET u == UintLE(arrayBuffer, binaryData.byteOffset + at, Width)
  IN IF TheAccessor.componentType \in {5120, 5122} THEN Signed(u, Width) ELSE u

InBounds ==
  \A i \in 0..(TheAccessor.count - 1), j \in 0..(Components - 1) : ComponentInside(i, j)

ElementIndex(i, j) == i * Components + j + 1

(* C1: for an accessor whose read region extends past the end of the binary *)
(* payload, readAccessor does not throw; it returns count x components      *)
(* elements, each readable component decoded and each unreadable one 0, and *)
(* it logs a warning - on the tight path and on the interleaved path.       *)
C1_OverflowIsClampedAndZeroFilled ==
  (pc = "done" /\ Supported /\ ~InBounds) =>
    /\ result.status = "ok"
    /\ Len(result.elems) = TheAccessor.count * Components
    /\ \A i \in 0..(TheAccessor.count - 1), j \in 0..(Components - 1) :
         result.elems[ElementIndex(i, j)] =
           IF ComponentInside(i, j) THEN ValueAt(ComponentAt(i, j)) ELSE 0
    /\ warnings # <<>>

(* C7: on the tight-packing path readAccessor succeeds for every in-bounds  *)
(* absolute byte offset, aligned or not, and the array it returns shares no *)
(* bytes with the payload - at both call sites.                             *)
C7_TightPathNeverReinterpretsInPlace ==
  (pc = "done" /\ Supported /\ OnTightPath /\ TheAccessor.count > 0 /\ InBounds) =>
    /\ result.status = "ok"
    /\ ~result.shares

(* C8: for every in-bounds accessor of a supported type, readAccessor (the  *)
(* AR screen's) returns count x components elements, and element            *)
(* i * components + j is the little-endian value at bufferView.byteOffset + *)
(* accessor.byteOffset + i * stride + j * width, both offsets defaulting to *)
(* 0 and the stride to the natural element size.                            *)
C8_InBoundsAccessorDecodesExactly ==
  (pc = "done" /\ site = "AR" /\ Supported /\ InBounds) =>
    /\ result.status = "ok"
    /\ result.ctor = COMPONENT_TYPES[TheAccessor.componentType].array
    /\ Len(result.elems) = TheAccessor.count * Components
    /\ \A i \in 0..(TheAccessor.count - 1), j \in 0..(Components - 1) :
         result.elems[ElementIndex(i, j)] = ValueAt(ComponentAt(i, j))

\* A 3-vertex float VEC3 triangle, tightly packed at a non-zero offset, read
\* by the AR screen: 9 numbers.
C8_TriangleRead ==
  /\ pc = "done"
  /\ site = "AR"
  /\ TheAccessor.componentType = 5126
  /\ TheAccessor.type = "VEC3"
  /\ TheAccessor.count = 3
  /\ "byteOffset" \in DOMAIN TheAccessor
  /\ "byteStride" \notin DOMAIN TheBufferView
  /\ InBounds
  /\ result.status = "ok"
  /\ Len(result.elems) = 9

----------------------------------------------------------------------------
(* Claims about parseGLB, checked under SpecGLB.                           *)

DeclaredTotal == UintLE(arrayBuffer, 8, 4)

HeaderPasses ==
  /\ Len(arrayBuffer) >= 12
  /\ SubSeq(arrayBuffer, 1, 4) = <<103, 108, 84, 70>>
  /\ SubSeq(arrayBuffer, 5, 8) = <<2, 0, 0, 0>>

\* Following the declared chunk lengths from `at`: some chunk's 8-byte header
\* or declared length ends past the buffer or past the declared total length.
RECURSIVE TruncatedFrom(_)
TruncatedFrom(at) ==
  LET limit == Min(Len(arrayBuffer), DeclaredTotal)
  IN IF at >= DeclaredTotal THEN FALSE
     ELSE IF at + 8 > limit THEN TRUE
     ELSE IF at + 8 + UintLE(arrayBuffer, at, 4) > limit THEN TRUE
     ELSE TruncatedFrom(at + 8 + UintLE(arrayBuffer, at, 4))

\* Offset of the first chunk of `type` from `at` on, in container order; 0 if
\* there is none.
RECURSIVE FirstChunkOfType(_, _)
FirstChunkOfType(type, at) ==
  IF at >= DeclaredTotal \/ at + 8 > Len(arrayBuffer) THEN 0
  ELSE IF UintLE(arrayBuffer, at + 4, 4) = type THEN at
  ELSE FirstChunkOfType(type, at + 8 + UintLE(arrayBuffer, at, 4))

ChunkData(at) == SubSeq(arrayBuffer, at + 9, at + 8 + UintLE(arrayBuffer, at, 4))

(* C2: parseGLB fails with the truncation error whenever some chunk's       *)
(* header or declared length extends past the end of the buffer or past the *)
(* declared total length, whatever the chunk's type, and returns nothing    *)
(* read from such a container.  Any thrown error is taken for the           *)
(* truncation error here: the code has no error of its own for it.          *)
C2_TruncatedContainerFails ==
  (pc = "done" /\ HeaderPasses /\ TruncatedFrom(12)) =>
    /\ result.status = "throw"
    /\ gltfJson = Null
    /\ binaryData = Null

(* C9: parseGLB returns the first chunk of the document type and the first  *)
(* chunk of the binary type, in container order; later chunks of a type are *)
(* ignored.                                                                 *)
C9_FirstChunkOfEachTypeWins ==
  LET firstJson == FirstChunkOfType(CHUNK_TYPE_JSON, 12)
      firstBin == FirstChunkOfType(CHUNK_TYPE_BIN, 12)
  IN (/\ pc = "done"
      /\ result.status = "ok"
      /\ firstJson # 0
      /\ JSONParse(ChunkData(firstJson)).tag = "object") =>
       /\ gltfJson = JSONParse(ChunkData(firstJson))
       /\ binaryData = IF firstBin = 0 THEN Null
                       ELSE Uint8View(firstBin + 8, UintLE(arrayBuffer, firstBin, 4))

BadMagic == Len(arrayBuffer) >= 4 /\ SubSeq(arrayBuffer, 1, 4) # <<103, 108, 84, 70>>
BadVersion == Len(arrayBuffer) >= 8 /\ SubSeq(arrayBuffer, 5, 8) # <<2, 0, 0, 0>>

(* C10: when the magic is not 'glTF' or the version is not 2, parseGLB      *)
(* fails with the invalid-format error before it reads any chunk; it        *)
(* returns a result only when the header passes both checks.                *)
C10_BadHeaderFailsBeforeAnyChunk ==
  /\ (BadMagic \/ BadVersion) =>
       /\ chunksRead = <<>>
       /\ pc # "chunks"
       /\ pc = "done" =>
            /\ result.status = "throw"
            /\ result.error = IF BadMagic THEN "Invalid GLB file: bad magic number"
                                          ELSE "Unsupported GLB version"
  /\ (pc = "done" /\ result.status = "ok") => HeaderPasses

\* A buffer with the right magic, version 3 and a chunk after the header has
\* been refused.
C10_VersionRefused ==
  /\ pc = "done"
  /\ Len(arrayBuffer) > 12
  /\ ~BadMagic
  /\ SubSeq(arrayBuffer, 5, 8) = <<3, 0, 0, 0>>
  /\ result.error = "Unsupported GLB version"

\* The chunks of the document type among those the loop has read.
JsonChunksRead == {k \in DOMAIN chunksRead : chunksRead[k].type = CHUNK_TYPE_JSON}

(* C11: when the chunk loop has come to the declared total length without  *)
(* finding a chunk of the document type, parseGLB fails with its missing-  *)
(* document error; and whenever parseGLB returns, the document it returns  *)
(* is the parsed content of a document chunk that lies in the container    *)
(* (the binary payload may be absent).                                     *)
C11_MissingDocumentChunkFails ==
  /\ (pc = "done" /\ HeaderPasses /\ offset >= totalLength /\ JsonChunksRead = {})
       => /\ result.status = "throw"
          /\ result.error = "GLB file has no JSON chunk"
          /\ gltfJson = Null
  /\ (pc = "done" /\ result.status = "ok")
       => \E k \in JsonChunksRead :
            /\ chunksRead[k].at + 8 + chunksRead[k].length <= Len(arrayBuffer)
            /\ gltfJson = JSONParse(ChunkData(chunksRead[k].at))

\* A container holding a binary chunk and no document chunk has been read to
\* its end and refused.
C11_OnlyBinaryRefused ==
  /\ pc = "done"
  /\ HeaderPasses
  /\ offset >= totalLength
  /\ JsonChunksRead = {}
  /\ \E k \in DOMAIN chunksRead : chunksRead[k].type = CHUNK_TYPE_BIN
  /\ result.error = "GLB file has no JSON chunk"

\* The component types glTF allows for an index accessor.
IndexComponentTypes == {5121, 5123, 5125}

VertexCount(attribute) ==
  IF "computed" \in DOMAIN attribute THEN attribute.count
  ELSE Len(attribute.array) \div attribute.itemSize

\* C31: a primitive that buildPrimitive emits has a position and a normal
\* attribute with the same number of vertices; the normal is the declared
\* accessor's data when the primitive declares NORMAL and is computed
\* otherwise; uv and color are there exactly when TEXCOORD_0 and COLOR_0
\* are declared.  Checked under SpecPrimitive.
C31_PositionAndNormalOfEqualCount ==
  (pc = "done" /\ result.status = "ok")
    => LET attrs == FirstPrimitive(gltfJson).attributes
           geometry == result.geometry
       IN /\ "position" \in DOMAIN geometry
          /\ "normal" \in DOMAIN geometry
          /\ VertexCount(geometry.position) = VertexCount(geometry.normal)
          /\ ("computed" \in DOMAIN geometry.normal) <=> ("NORMAL" \notin DOMAIN attrs)
          /\ "NORMAL" \in DOMAIN attrs =>
               Len(geometry.normal.array) = 3 * gltfJson.accessors[attrs.NORMAL + 1].count
          /\ ("uv" \in DOMAIN geometry) <=> ("TEXCOORD_0" \in DOMAIN attrs)
          /\ ("color" \in DOMAIN geometry) <=> ("COLOR_0" \in DOMAIN attrs)

\* C22: parseGLB ends, by a return or a throw, on every buffer: while the
\* chunk loop runs the offset is below the declared total length, and an
\* iteration that does not throw advances the offset by 8 plus the chunk's
\* declared length, at least 8.
C22_ChunkLoopEnds ==
  /\ <>(pc = "done")
  /\ [][(pc = "chunks" /\ pc' = "chunks")
         => /\ offset < totalLength
            /\ offset' = offset + 8 + chunksRead'[Len(chunksRead')].length
            /\ offset' >= offset + 8]_vars

\* The loop has ended after a chunk of declared length 0 and a chunk whose
\* declared length reaches past the end of the buffer.
C22_EndedAfterEmptyAndOverlongChunk ==
  /\ pc = "done"
  /\ \E j, k \in DOMAIN chunksRead :
       /\ chunksRead[j].length = 0
       /\ chunksRead[k].at + 8 + chunksRead[k].length > Len(arrayBuffer)

----------------------------------------------------------------------------
(* Claims about two callers, checked under SpecCalls.                      *)

\* The activation of call i as it is now.
ActivationOf(i) ==
  IF i = running
    THEN [site |-> site, pc |-> pc, result |-> result, gltfJson |-> gltfJson,
          binaryData |-> binaryData, warnings |-> warnings, groups |-> groups,
          drawables |-> drawables]
    ELSE suspended[i].state

\* What call i returned or threw: the outcome, the document and the view of
\* the payload, the scene graph and the warnings logged.
OutputOf(i) ==
  LET a == ActivationOf(i)
  IN <<a.result, a.gltfJson, a.binaryData, a.groups, a.drawables, a.warnings>>

AllReturned == \A i \in DOMAIN suspended : ActivationOf(i).pc = "done"

----------------------------------------------------------------------------
(* Claims about the backend, checked under SpecGeneration.                 *)

\* The status of the stored document; "none" before the document exists.
StoredStatus(doc) == IF doc = Null THEN "none" ELSE doc.generationStatus

\* C24: the stored generation status moves only from pending to
\* processing and from processing to completed or failed; once it is
\* completed or failed no step of the poller or of a status request
\* changes it.
C24_StatusFollowsLifecycle ==
  [][\/ StoredStatus(stored') = StoredStatus(stored)
     \/ <<StoredStatus(stored), StoredStatus(stored')>>
          \in {<<"none", "pending">>, <<"pending", "processing">>,
               <<"processing", "completed">>, <<"processing", "failed">>}]_vars

\* The services a key is set for.
Configured == {service \in {"meshy", "tripo"} : keys[service]}

\* The services a call tried, in order; each but the last one failed, and
\* the last one failed too when the call threw.
Tried == route.generation.tried

\* C25: when generateModel or startGeneration has settled, Tripo was tried
\* only if Meshy is not configured or was tried before it and failed, a
\* call that succeeded names the last service tried as its method, and a
\* call that failed has tried every configured service.
C25_MeshyThenTripo ==
  route.generation # Null
    => /\ \A k \in DOMAIN Tried :
            Tried[k] = "tripo" => (~keys.meshy \/ (k = 2 /\ Tried[1] = "meshy"))
       /\ route.generation.status = "ok"
            => /\ Tried # <<>>
               /\ route.generation.method = Tried[Len(Tried)]
       /\ route.generation.status = "throw"
            => \A service \in Configured : \E k \in DOMAIN Tried : Tried[k] = service

\* A document or an answer that says failed for the error of a request to
\* the provider that threw.
FailedByRequestError(doc) ==
  /\ doc.generationStatus = "failed"
  /\ doc.generationError = "Network Error"

\* C32: a check whose request to the provider threw does not fail the
\* object: neither the stored document nor the answer of the status
\* endpoint says failed for it.
C32_TransientCheckKeepsProcessing ==
  /\ stored # Null => ~FailedByRequestError(stored)
  /\ \A i \in DOMAIN requests :
       (requests[i].response # Null /\ requests[i].response.code = 200)
         => ~FailedByRequestError(requests[i].response)

\* C33: an object whose stored status is processing reaches completed or
\* failed.  Checked under FairSpecGeneration.
C33_ProcessingEnds ==
  (StoredStatus(stored) = "processing")
    ~> (StoredStatus(stored) \in {"completed", "failed"})

\* C34: no step lowers the stored generationProgress, and it stays within
\* 0..100.
C34_ProgressNeverDecreases ==
  [][(stored # Null /\ stored' # Null)
       => /\ stored'.generationProgress >= stored.generationProgress
          /\ stored'.generationProgress \in 0..100]_vars

\* C35: a stored document that is completed has a model URL and progress
\* 100, one that is failed has an error text, and one that is pending or
\* processing has no model URL.
C35_StoredDocumentConsistent ==
  stored # Null
    => /\ stored.generationStatus = "completed"
            => (stored.modelUrl # "" /\ stored.generationProgress = 100)
       /\ stored.generationStatus = "failed" => stored.generationError # ""
       /\ stored.generationStatus \in {"pending", "processing"} => stored.modelUrl = ""

\* The activations of pollUntilComplete that have not returned.
ActivePollers == {p \in DOMAIN poller : poller[p].pc \notin {"off", "done"}}

\* C36: at most one poller is active at a time, also when the object is
\* regenerated while it is processing, and a poller asks the provider only
\* for an object it has found processing.  Checked under SpecRegenerate.
C36_AtMostOnePoller ==
  /\ Cardinality(ActivePollers) <= 1
  /\ \A p \in DOMAIN poller :
       poller[p].pc = "check" => poller[p].object.doc.generationStatus = "processing"

----------------------------------------------------------------------------
(* Claims about waitForGeneration, checked under SpecWait.                 *)

\* The error waitForGeneration makes of a failed status.
GenerationError(answer) ==
  IF answer.generationError = "" THEN "Model generation failed" ELSE answer.generationError

\* C26: waitForGeneration settles on the first answer that reports
\* completed (it returns that answer) or failed (it throws the generation
\* error, whatever its text); it polls again after an error only if the
\* request itself failed for the network; and it throws the timeout error
\* only once maxDuration has elapsed.
C26_SettlesOnFirstTerminalAnswer ==
  /\ \A k \in DOMAIN wait.seen :
       /\ wait.seen[k].generationStatus = "completed"
            => (k = Len(wait.seen) /\ wait.pc = "done" /\ wait.returned = wait.seen[k])
       /\ wait.seen[k].generationStatus = "failed"
            => /\ k = Len(wait.seen)
               /\ wait.pc = "done"
               /\ wait.thrown = GenerationError(wait.seen[k])
  /\ Len(wait.retries) <= Len(wait.failures)
  /\ wait.thrown = "Model generation timed out" => wait.elapsed

\* CreateObjectScreen's generationProgress as the onProgress callback sees
\* it.  The callback closes over the render in which the submit button was
\* pressed; the state is 0 in every render in which it can be pressed
\* (useState(0), and handleSubmit's finally block sets it to 0 again), and
\* the setGenerationProgress calls made since do not change that closure.
ClosureProgress == 0

\* CreateObjectScreen.js 149: Math.max(progress, generationProgress).
effectiveProgress(progress) ==
  IF progress >= ClosureProgress THEN progress ELSE ClosureProgress

\* What the screen shows after the k-th progress callback of the call
\* (updateProgress, lines 85-94: the state and the bar's target).
Shown(k) == effectiveProgress(wait.progress[k][1])

\* C39: across the successive progress callbacks of one waitForGeneration
\* run the progress shown by CreateObjectScreen never decreases.
C39_ShownProgressOnlyForward ==
  \A j \in DOMAIN wait.progress, k \in DOMAIN wait.progress :
    j < k => Shown(k) >= Shown(j)

----------------------------------------------------------------------------
(* Claims about the AR session, checked under SpecSession.                 *)

\* 0.2 <= s <= 5.0
WithinPinchRange(s) == s.d > 0 /\ 5 * s.n >= s.d /\ s.n <= 5 * s.d

\* modelScale lies in [0.2, 5.0], and the placed model and its shadow
\* disc carry it on all three axes.
ScaleHeld ==
  /\ WithinPinchRange(ar.modelScale)
  /\ \A object \in sceneRef :
       object.id \in {ar.placedModel, ar.shadowDisc}
         => object.scale = <<ar.modelScale, ar.modelScale, ar.modelScale>>

\* A step that starts and ends with no model placed changes neither the
\* scene nor the scale and rotation of the session.
NoEffectUnplaced ==
  ~ar.modelPlaced /\ ~ar'.modelPlaced
    => /\ sceneRef' = sceneRef
       /\ ar'.modelScale = ar.modelScale
       /\ ar'.modelRotation = ar.modelRotation

\* C27: after any sequence of taps, resets and touch events, modelScale
\* lies in [0.2, 5.0], and the placed model and its shadow disc carry
\* that scale on all three axes; a touch event while no model is placed
\* changes nothing of the scene, the scale or the rotation.
C27_PinchScaleWithinRange == [](ScaleHeld) /\ [][NoEffectUnplaced]_vars

\* C28: after any sequence of taps, resets and touch events the scene
\* holds at most one placed model wrapper and at most one shadow disc, and
\* after handleReset it holds none.
C28_AtMostOnePlacedModel ==
  /\ Cardinality({object \in sceneRef : object.kind = "wrapper"}) <= 1
  /\ Cardinality({object \in sceneRef : object.kind = "shadow"}) <= 1
  /\ ~ar.modelPlaced => sceneRef = {}

----------------------------------------------------------------------------
(* Claims about a mount of a screen, checked under SpecMount.              *)

----------------------------------------------------------------------------
(* Claims about scene composition, checked under SpecScene.                *)

Range(seq) == {seq[k] : k \in DOMAIN seq}

\* The selected scene's roots, and a node's children, as the document
\* declares them.
RootsOf(gltf) == gltf.scenes[SceneIndex(gltf) + 1].nodes

ChildrenOf(gltf, n) ==
  IF n + 1 \in DOMAIN gltf.nodes THEN Field(gltf.nodes[n + 1], "children", <<>>) ELSE <<>>

\* The nodes at most `steps` child links away from the nodes of `from`.
RECURSIVE ReachedWithin(_, _, _)
ReachedWithin(gltf, from, steps) ==
  IF steps = 0 THEN from
  ELSE ReachedWithin(gltf, from \cup UNION {Range(ChildrenOf(gltf, n)) : n \in from},
                     steps - 1)

ReachedNodes(gltf) == ReachedWithin(gltf, Range(RootsOf(gltf)), Len(gltf.nodes))

Descendants(gltf, n) ==
  ReachedWithin(gltf, Range(ChildrenOf(gltf, n)), Len(gltf.nodes))

\* A cycle of the children relation that the selected scene's roots reach.
CycleReachable(gltf) ==
  /\ HasSceneRoots(gltf)
  /\ \E n \in ReachedNodes(gltf) : n \in Descendants(gltf, n)

\* The primitives composition visits: those of the meshes of the nodes the
\* roots reach, or of every mesh when there is no hierarchy to follow.
ComposedPrimitives(gltf) ==
  IF HasSceneRoots(gltf)
    THEN UNION {Range(gltf.meshes[gltf.nodes[n + 1].mesh + 1].primitives) :
                  n \in {m \in ReachedNodes(gltf) :
                           /\ m + 1 \in DOMAIN gltf.nodes
                           /\ "mesh" \in DOMAIN gltf.nodes[m + 1]}}
    ELSE UNION {Range(gltf.meshes[m].primitives) : m \in DOMAIN gltf.meshes}

AccessorSupported(gltf, index) ==
  /\ gltf.accessors[index + 1].componentType \in DOMAIN COMPONENT_TYPES
  /\ gltf.accessors[index + 1].type \in DOMAIN TYPE_SIZES

\* The geometry attribute each optional semantic becomes.
OptionalSemantics == {"NORMAL", "TEXCOORD_0", "COLOR_0"}

GeometryName(semantic) ==
  CASE semantic = "NORMAL" -> "normal"
    [] semantic = "TEXCOORD_0" -> "uv"
    [] semantic = "COLOR_0" -> "color"

(* A document that composition can follow to its end but for unsupported   *)
(* accessors: it has meshes and a payload, every node, mesh and scene      *)
(* index it uses is declared, and its hierarchy has no cycle.              *)
WellFormedButForAccessors(gltf, bin) ==
  /\ bin # Null
  /\ "meshes" \in DOMAIN gltf
  /\ Len(gltf.meshes) > 0
  /\ "nodes" \in DOMAIN gltf =>
       /\ HasSceneRoots(gltf)
       /\ RootsOf(gltf) # <<>>
       /\ Range(RootsOf(gltf)) \subseteq 0..(Len(gltf.nodes) - 1)
       /\ \A n \in DOMAIN gltf.nodes :
            /\ Range(Field(gltf.nodes[n], "children", <<>>)) \subseteq 0..(Len(gltf.nodes) - 1)
            /\ "mesh" \in DOMAIN gltf.nodes[n] => gltf.nodes[n].mesh + 1 \in DOMAIN gltf.meshes
       /\ ~CycleReachable(gltf)

\* C3: a document whose only defect is an unsupported component type or
\* element shape composes successfully.  A primitive with the defect on
\* its position is left out of the scene and a diagnostic is recorded;
\* every other primitive is built, without the attributes that have the
\* defect and with those that do not.
C3_UnsupportedAccessorSkipsOnlyItsOwner ==
  (pc = "done" /\ WellFormedButForAccessors(gltfJson, binaryData))
    => /\ result.status = "ok"
       /\ \A p \in ComposedPrimitives(gltfJson) :
            "POSITION" \in DOMAIN p.attributes =>
              IF AccessorSupported(gltfJson, p.attributes.POSITION)
                THEN \E d \in DOMAIN drawables :
                       /\ drawables[d].primitive = p
                       /\ "position" \in DOMAIN drawables[d].geometry
                       /\ \A a \in OptionalSemantics \cap DOMAIN p.attributes :
                            AccessorSupported(gltfJson, p.attributes[a])
                              <=> GeometryName(a) \in DOMAIN drawables[d].geometry
                ELSE /\ \A d \in DOMAIN drawables : drawables[d].primitive # p
                     /\ warnings # <<>>

\* C4: composing a document whose hierarchy has a cycle that the scene's
\* roots reach ends in a failure, and the recursion of processNode stays
\* bounded by the document: no node is entered again while a call for it
\* is still on the stack.
C4_CyclicHierarchyFailsBounded ==
  CycleReachable(gltfJson)
    => /\ \A i, j \in 2..Len(stack) :
            i # j => groups[stack[i].group].node # groups[stack[j].group].node
       /\ pc = "done" => result.status = "throw"

(* A valid document with at least one mesh: well formed, every primitive   *)
(* has a position, and every accessor a primitive names is supported.      *)
ValidWithMesh(gltf, bin) ==
  /\ WellFormedButForAccessors(gltf, bin)
  /\ \A m \in DOMAIN gltf.meshes :
       /\ Len(gltf.meshes[m].primitives) > 0
       /\ \A p \in Range(gltf.meshes[m].primitives) :
            /\ "POSITION" \in DOMAIN p.attributes
            /\ \A a \in DOMAIN p.attributes : AccessorSupported(gltf, p.attributes[a])
            /\ "indices" \in DOMAIN p => AccessorSupported(gltf, p.indices)

\* A Mesh that is in the scene graph returned: its group, and every group
\* above it, has been added to its parent.
RECURSIVE GroupInScene(_)
GroupInScene(g) ==
  g = 0 \/ (groups[g].attached /\ GroupInScene(groups[g].parent))

\* C5: composing a valid document with at least one mesh returns a scene
\* graph with at least one primitive, and the position array of each
\* primitive has three numbers per element of its position accessor; also
\* when the document declares scenes and nodes, wherever the roots lead.
C5_ValidContainerYieldsPrimitive ==
  (pc = "done" /\ ValidWithMesh(gltfJson, binaryData))
    => /\ result.status = "ok"
       /\ \E d \in DOMAIN drawables : GroupInScene(drawables[d].parent)
       /\ \A d \in DOMAIN drawables :
            Len(drawables[d].geometry.position.array)
              = gltfJson.accessors[drawables[d].primitive.attributes.POSITION + 1].count * 3

\* The primitives without a position among those composition visits.
SkippedPrimitives(gltf) ==
  {p \in ComposedPrimitives(gltf) : "POSITION" \notin DOMAIN p.attributes}

(* A document whose only defect is primitives without a position: well     *)
(* formed, and every accessor a primitive names is supported.              *)
ValidButForPositions(gltf, bin) ==
  /\ WellFormedButForAccessors(gltf, bin)
  /\ \A m \in DOMAIN gltf.meshes :
       \A p \in Range(gltf.meshes[m].primitives) :
         /\ \A a \in DOMAIN p.attributes : AccessorSupported(gltf, p.attributes[a])
         /\ "indices" \in DOMAIN p => AccessorSupported(gltf, p.indices)

SkipWarning == "Primitive has no POSITION attribute, skipping"

\* C18: a primitive without a POSITION attribute is skipped with a warning:
\* composition succeeds, no Mesh is made for it, and every other primitive
\* composition visits (of the same mesh and of the rest of the scene) has a
\* Mesh with a position, attached to the scene graph returned.
C18_PrimitiveWithoutPositionIsSkipped ==
  (/\ pc = "done"
   /\ ValidButForPositions(gltfJson, binaryData)
   /\ SkippedPrimitives(gltfJson) # {})
    => /\ result.status = "ok"
       /\ SkipWarning \in Range(warnings)
       /\ \A p \in ComposedPrimitives(gltfJson) :
            IF p \in SkippedPrimitives(gltfJson)
              THEN \A d \in DOMAIN drawables : drawables[d].primitive # p
              ELSE \E d \in DOMAIN drawables :
                     /\ drawables[d].primitive = p
                     /\ "position" \in DOMAIN drawables[d].geometry
                     /\ GroupInScene(drawables[d].parent)

\* A mesh of a primitive without a position and one with a position, under
\* a root node, next to a second mesh: the second primitive and the other
\* mesh are in the scene returned.
C18_SkippedBesideBuilt ==
  /\ pc = "done"
  /\ result.status = "ok"
  /\ "nodes" \in DOMAIN gltfJson
  /\ ValidButForPositions(gltfJson, binaryData)
  /\ P_nopos \in ComposedPrimitives(gltfJson)
  /\ SkipWarning \in Range(warnings)
  /\ \E d, e \in DOMAIN drawables :
       /\ drawables[d].primitive = P_pos
       /\ drawables[e].primitive = P_full
       /\ GroupInScene(drawables[d].parent)
       /\ GroupInScene(drawables[e].parent)

\* The scene the document selects, read from the document itself.
DefaultScene(gltf) == IF "scene" \in DOMAIN gltf THEN gltf.scene ELSE 0

\* The nodes of the Groups added to the root Group, in the order added.
RECURSIVE RootGroupNodes(_)
RootGroupNodes(gs) ==
  IF gs = <<>> THEN <<>>
  ELSE (IF Head(gs).attached /\ Head(gs).parent = 0 THEN <<Head(gs).node>> ELSE <<>>)
       \o RootGroupNodes(Tail(gs))

\* C19: composing a valid document takes the roots of the scene named by
\* the document's default scene index, or of the first scene when there is
\* none; a document that declares no hierarchy is composed from meshes[]
\* in declaration order, one Mesh per primitive, in order, each directly
\* under the root Group with no node Group in between.
C19_RootsOfDefaultSceneOrMeshes ==
  (/\ pc = "done"
   /\ ValidWithMesh(gltfJson, binaryData)
   /\ "nodes" \in DOMAIN gltfJson => DefaultScene(gltfJson) + 1 \in DOMAIN gltfJson.scenes)
    => /\ result.status = "ok"
       /\ IF "nodes" \in DOMAIN gltfJson
            THEN RootGroupNodes(groups) = gltfJson.scenes[DefaultScene(gltfJson) + 1].nodes
            ELSE /\ groups = <<>>
                 /\ Len(drawables) = Len(AllPrimitives(gltfJson.meshes))
                 /\ \A k \in DOMAIN drawables :
                      /\ drawables[k].primitive = AllPrimitives(gltfJson.meshes)[k]
                      /\ drawables[k].parent = 0

\* The second of two scenes is the default and its roots differ from the
\* first scene's: the root Group holds the second scene's roots.
C19_SecondSceneComposed ==
  /\ pc = "done"
  /\ result.status = "ok"
  /\ ValidWithMesh(gltfJson, binaryData)
  /\ "scene" \in DOMAIN gltfJson
  /\ gltfJson.scene = 1
  /\ Len(gltfJson.scenes) = 2
  /\ gltfJson.scenes[1].nodes # gltfJson.scenes[2].nodes
  /\ RootGroupNodes(groups) = gltfJson.scenes[2].nodes

\* The indices of a list that name a declared node, in order.
RECURSIVE DeclaredNodes(_, _)
DeclaredNodes(indices, gltf) ==
  IF indices = <<>> THEN <<>>
  ELSE (IF Head(indices) + 1 \in DOMAIN gltf.nodes THEN <<Head(indices)>> ELSE <<>>)
       \o DeclaredNodes(Tail(indices), gltf)

\* The primitives of a list that have a POSITION attribute, in order.
RECURSIVE PositionBearing(_)
PositionBearing(primitives) ==
  IF primitives = <<>> THEN <<>>
  ELSE (IF "POSITION" \in DOMAIN Head(primitives).attributes
          THEN <<Head(primitives)>> ELSE <<>>)
       \o PositionBearing(Tail(primitives))

\* The nodes of the Groups added to Group g, in the order added.
RECURSIVE ChildGroupNodes(_, _)
ChildGroupNodes(gs, g) ==
  IF gs = <<>> THEN <<>>
  ELSE (IF Head(gs).attached /\ Head(gs).parent = g THEN <<Head(gs).node>> ELSE <<>>)
       \o ChildGroupNodes(Tail(gs), g)

\* The primitives of the Meshes added to Group g, in the order added.
RECURSIVE DrawnPrimitives(_, _)
DrawnPrimitives(ds, g) ==
  IF ds = <<>> THEN <<>>
  ELSE (IF Head(ds).parent = g THEN <<Head(ds).primitive>> ELSE <<>>)
       \o DrawnPrimitives(Tail(ds), g)

\* The node's own field, or the default glTF gives it.
OwnOrDefault(node, field, default) ==
  IF field \in DOMAIN node THEN node[field] ELSE default

\* C30: in the tree a successful composition returns, the Groups under the
\* root Group are the selected scene's root nodes in order, and every Group
\* made for a node has as its local transform the node's matrix when it has
\* one (translation, rotation and scale are then ignored) and otherwise
\* its translation, rotation and scale with defaults zero, identity and
\* one; it holds one Mesh per primitive of the node's mesh that has a
\* position, in order, and one child Group per child index that names a
\* node, in order.  Checked under SpecScene.
C30_TreeMirrorsHierarchy ==
  (pc = "done" /\ result.status = "ok" /\ groups # <<>>)
    => /\ ChildGroupNodes(groups, 0)
          = DeclaredNodes(gltfJson.scenes[DefaultScene(gltfJson) + 1].nodes, gltfJson)
       /\ \A g \in DOMAIN groups :
            LET node == gltfJson.nodes[groups[g].node + 1]
            IN /\ groups[g].attached
               /\ IF "matrix" \in DOMAIN node
                    THEN /\ groups[g].transform.kind = "matrix"
                         /\ groups[g].transform.matrix = node.matrix
                    ELSE /\ groups[g].transform.kind = "trs"
                         /\ groups[g].transform.translation
                              = OwnOrDefault(node, "translation", <<0, 0, 0>>)
                         /\ groups[g].transform.rotation
                              = OwnOrDefault(node, "rotation", <<0, 0, 0, 1>>)
                         /\ groups[g].transform.scale
                              = OwnOrDefault(node, "scale", <<1, 1, 1>>)
               /\ DrawnPrimitives(drawables, g)
                    = (IF "mesh" \in DOMAIN node
                         THEN PositionBearing(gltfJson.meshes[node.mesh + 1].primitives)
                         ELSE <<>>)
               /\ ChildGroupNodes(groups, g)
                    = (IF "children" \in DOMAIN node
                         THEN DeclaredNodes(node.children, gltfJson)
                         ELSE <<>>)

\* A root node with a matrix beside a translation and a mesh whose first
\* primitive has no position, with the same child twice; the child has a
\* rotation and a scale and no translation.
C30_MatrixNodeWithTwoChildGroups ==
  /\ pc = "done"
  /\ result.status = "ok"
  /\ \E g, c, d \in DOMAIN groups :
       /\ c < d
       /\ groups[g].parent = 0
       /\ groups[g].transform.kind = "matrix"
       /\ "translation" \in DOMAIN gltfJson.nodes[groups[g].node + 1]
       /\ DrawnPrimitives(drawables, g) = <<P_pos>>
       /\ groups[c].parent = g
       /\ groups[d].parent = g
       /\ groups[c].transform.kind = "trs"
       /\ groups[c].transform.translation = <<0, 0, 0>>
       /\ groups[c].transform.scale = <<2, 3, 4>>
       /\ DrawnPrimitives(drawables, d) = <<P_full, P_pos>>

----------------------------------------------------------------------------
(* Claims about the two layouts, checked under SpecLayout.                 *)

SameArray(a, b) ==
  /\ a.status = "ok"
  /\ b.status = "ok"
  /\ a.ctor = b.ctor
  /\ a.elems = b.elems

\* C6: the same vertices laid out tightly (stride 0, a region per
\* attribute) and interleaved (stride of position plus normal) resolve to
\* identical position arrays and identical normal arrays.
C6_InterleavedEqualsTight ==
  DOMAIN resolved = {"tight", "interleaved"}
    => /\ SameArray(resolved.tight.position, resolved.interleaved.position)
       /\ SameArray(resolved.tight.normal, resolved.interleaved.normal)

----------------------------------------------------------------------------
(* Claims about buildMaterial, checked under SpecMaterial.                 *)

ThePrimitive == FirstPrimitive(gltfJson)

\* The material the primitive names, when the document declares it.
MaterialDeclared ==
  /\ "material" \in DOMAIN ThePrimitive
  /\ "materials" \in DOMAIN gltfJson
  /\ ThePrimitive.material + 1 \in DOMAIN gltfJson.materials

TheMaterial == gltfJson.materials[ThePrimitive.material + 1]

\* The alpha mode, opaque unless declared, and the base colour's alpha, 1.0
\* unless declared.
AlphaMode == Field(TheMaterial, "alphaMode", "OPAQUE")

BaseAlpha ==
  IF /\ "pbrMetallicRoughness" \in DOMAIN TheMaterial
     /\ "baseColorFactor" \in DOMAIN TheMaterial.pbrMetallicRoughness
     /\ Len(TheMaterial.pbrMetallicRoughness.baseColorFactor) >= 4
    THEN TheMaterial.pbrMetallicRoughness.baseColorFactor[4]
    ELSE 100

\* C16: buildMaterial resolves alpha by the alpha mode: blend makes the
\* material transparent with the base colour's alpha as opacity; mask
\* records the cutoff, 0.5 when none is declared; opaque (declared or by
\* default) ignores the alpha: not transparent, opacity 1.
C16_AlphaFollowsAlphaMode ==
  (pc = "done" /\ MaterialDeclared) =>
    /\ result.status = "ok"
    /\ AlphaMode = "BLEND" => (result.transparent /\ result.opacity = BaseAlpha)
    /\ AlphaMode = "MASK" => result.alphaTest = Field(TheMaterial, "alphaCutoff", 50)
    /\ AlphaMode = "OPAQUE" => (~result.transparent /\ result.opacity = 100)

\* C17: a primitive with no material index, a document with no
\* materials[], or an index that names no entry of materials[], still gets
\* the default material (gray cccccc, double-sided) from the AR screen's
\* buildMaterial, which does not throw.
C17_MissingMaterialGetsDefault ==
  (pc = "done" /\ site = "AR" /\ ~MaterialDeclared) =>
    /\ result.status = "ok"
    /\ result.color = "cccccc"
    /\ result.side = "DoubleSide"
    /\ ~result.transparent

----------------------------------------------------------------------------
(* Claims about normalizeModel, checked under SpecNormalize.               *)

\* The world-space bounding box of the Group now and as normalizeModel was
\* last handed it.
WorldBox == setFromObject(model)

BoxBefore == setFromObject(before)

NonDegenerate(group) == maxDim(getSize(setFromObject(group))) # Whole(0)

\* The offset that puts the centre of the box at 0 on X and Z and its
\* lowest point at 0 on Y.
Recentring(box) ==
  <<Minus(Whole(0), getCenter(box)[1]), Minus(Whole(0), box.min[2]),
    Minus(Whole(0), getCenter(box)[3])>>

\* C12: after normalizeModel(group, T) on a scene whose bounding box has a
\* non-zero largest dimension, the world bounding box has largest dimension
\* T, lowest Y 0 and centre 0 on X and Z, and the direct children were moved
\* by the recentring offset measured before the Group's scale was changed.
C12_NormalizedBoxIsTargetSizedAndGrounded ==
  (calls = 1 /\ NonDegenerate(before))
    => /\ maxDim(getSize(WorldBox)) = target
       /\ WorldBox.min[2] = Whole(0)
       /\ getCenter(WorldBox)[1] = Whole(0)
       /\ getCenter(WorldBox)[3] = Whole(0)
       /\ \A c \in DOMAIN model.children :
            model.children[c].position
              = [k \in 1..3 |-> Plus(before.children[c].position[k],
                                     Recentring(BoxBefore)[k])]

\* C13: a second call of normalizeModel with the same target size on the
\* Group the first call left changes no transform; when it does not return
\* early, the scale factor it applies is 1 and its offset is (0, 0, 0).
C13_SecondNormalizeChangesNothing ==
  calls >= 2
    => /\ model = before
       /\ applied # Null => (applied.scale = Whole(1) /\ applied.offset = ZeroVector)

\* The AR screen's normalizeModel has run twice on a Group of two children
\* that the first call rescaled.
C13_RescaledThenUntouched ==
  /\ calls = 2
  /\ site = "AR"
  /\ Len(model.children) = 2
  /\ model.scale # Ints(1, 1, 1)
  /\ applied # Null
  /\ applied.scale = Whole(1)
  /\ model = before

----------------------------------------------------------------------------
(* Claims about loadModel, checked under SpecLoad.                         *)

\* The Group as buildSceneFromGLTF returned it: before normalizeModel ran.
AsBuilt == IF calls = 0 THEN model ELSE before

\* Every vertex of the Group is at one point of the world.
AllVerticesAtOnePoint(group) ==
  /\ ~setFromObject(group).empty
  /\ setFromObject(group).min = setFromObject(group).max

ReportIsZero(report) ==
  /\ report.width.units = 0
  /\ report.height.units = 0
  /\ report.depth.units = 0

\* C14: for a scene whose vertices are all at one point (largest dimension
\* 0), normalizeModel leaves the Group and every child as they were, and
\* the screen receives the dimension report (0, 0, 0); the AR screen's
\* normalizeModel also returns a report of zeros.
C14_DegenerateIsLeftAloneAndReportedZero ==
  (pc = "done" /\ calls = 1 /\ AllVerticesAtOnePoint(before))
    => /\ model = before
       /\ applied = Null
       /\ modelDimensions # Null
       /\ ReportIsZero(modelDimensions)
       /\ site = "AR" => returned = ZeroReport
       /\ modelLoaded

\* Two children whose single points coincide in the world: loaded, left
\* alone and reported as zeros.
C14_PointSceneLoaded ==
  /\ pc = "done"
  /\ calls = 1
  /\ Len(before.children) = 2
  /\ AllVerticesAtOnePoint(before)
  /\ model = before
  /\ ReportIsZero(modelDimensions)

\* The three components of a dimension report, and of the box size they
\* report, in the same order.
ReportComponents(report) == <<report.width, report.height, report.depth>>

SizeAsBuilt == getSize(setFromObject(AsBuilt))

\* The decimal string is the one nearest to the number, the upper of two
\* equally near: units - 1/2 <= x * 10^digits < units + 1/2.
NearestDecimal(text, x) ==
  /\ text.units >= 0
  /\ ~Less(Times(x, Whole(Pow10(text.digits))), Num(2 * text.units - 1, 2))
  /\ Less(Times(x, Whole(Pow10(text.digits))), Num(2 * text.units + 1, 2))

\* C15 as stated: the dimension report the AR screen receives is three
\* positive numbers or three zeros, never a mix, and it is the size of the
\* bounding box measured before normalization.
C15_ReportAllPositiveOrAllZero ==
  (site = "AR" /\ modelDimensions # Null)
    => /\ \/ \A k \in 1..3 : ReportComponents(modelDimensions)[k].units > 0
          \/ \A k \in 1..3 : ReportComponents(modelDimensions)[k].units = 0
       /\ \A k \in 1..3 : NearestDecimal(ReportComponents(modelDimensions)[k], SizeAsBuilt[k])

\* C15, amended: the dimension report the screen receives is the size of
\* the bounding box measured before normalization, each component rounded
\* to the decimals of the report and never negative, whatever target size
\* and scale factor normalizeModel then applies; a component is zero along
\* an axis on which the box is flat or thinner than half a unit of the last
\* decimal, so zero and positive components can be mixed.  The report
\* normalizeModel returns at the AR screen is the same numbers.
C15_ReportIsRoundedSizeAsBuilt ==
  /\ modelDimensions # Null
       => \A k \in 1..3 :
            /\ NearestDecimal(ReportComponents(modelDimensions)[k], SizeAsBuilt[k])
            /\ (SizeAsBuilt[k] = Whole(0)) => ReportComponents(modelDimensions)[k].units = 0
  /\ (site = "AR" /\ calls = 1)
       => IF applied = Null
            THEN returned = ZeroReport
            ELSE returned = modelDimensions

\* A scene flat along Y, normalized and loaded: its report is zero on Y and
\* positive on X and Z.
C15_FlatSceneReported ==
  /\ pc = "done"
  /\ site = "AR"
  /\ calls = 1
  /\ applied # Null
  /\ applied.scale # Whole(1)
  /\ SizeAsBuilt[2] = Whole(0)
  /\ modelDimensions.width.units > 0
  /\ modelDimensions.height.units = 0
  /\ modelDimensions.depth.units > 0

\* The scene has no drawable primitive: composition threw for a document
\* without meshes, or the Group it returned holds no Mesh.
EmptyScene == model = Null \/ meshCount(model.children) = 0

\* C20: a container that yields no drawable primitive ends loadModel in the
\* error state, never in the loaded / ready state with an empty Group, at
\* the AR screen and at the viewer.
C20_EmptySceneIsAFailure ==
  (pc = "done" /\ EmptyScene)
    => /\ status = "error"
       /\ result.status = "throw"
       /\ ~modelLoaded


----------------------------------------------------------------------------
(* Claims about the AR screen's states, checked under SpecScreen.          *)

\* A step that adds an object to the scene: a tap has placed a model.
Places == \E o \in sceneRef' : o \notin sceneRef

\* A step that is a touch of the user.
Touched == ar'.events # ar.events

\* C37: the AR state is ready or placed only when the model has been
\* loaded and the surface-detection timer has fired; a tap places a model
\* only in the state ready; and in the states loading, detecting and error
\* a touch changes nothing (but the count of touches).
C37_StatesOfTheSession ==
  /\ [](ar.arState \in {"ready", "placed"}
          => (ar.modelLoaded /\ load.modelLoaded /\ load.timer = "fired"))
  /\ [][/\ Places => ar.arState = "ready"
        /\ (Touched /\ ar.arState \in {"loading", "detecting", "error"})
             => /\ sceneRef' = sceneRef
                /\ load' = load
                /\ ar' = [ar EXCEPT !.events = @ + 1]]_vars

\* C38: once loadModel has failed the AR state is error, the status
\* message is the failure text and nothing is placed, whatever happens
\* afterwards.
C38_FailedLoadStaysError ==
  load.status = "error"
    => /\ ar.arState = "error"
       /\ ar.statusMessage = "Failed to load model"
       /\ sceneRef = {}

====
